---- MODULE Spec2Model ----
(***************************************************************************)
(* A model of the type-definition compiler of the gobject macros:          *)
(*   - TypeDefinition::parse (src/core/type_definition.rs): the selection  *)
(*     of the struct and of the implementation block that define a type;   *)
(*   - the generated registration tables properties()/signals() and the    *)
(*     generated set_property/property dispatch (type_definition.rs and     *)
(*     src/core/class.rs);                                                 *)
(*   - the once-only initialisation of the generated tables;               *)
(*   - the generated vtable initialisation of a class and its subclasses;  *)
(*   - ClassDefinition::from_type and to_tokens (class.rs): the validation *)
(*     of the class options and what is emitted beside the module;         *)
(*   - the extraction of the wrapper methods and the check of their        *)
(*     constructors (type_definition.rs);                                  *)
(*   - the statements of the generated IsSubclassable::class_init;         *)
(*   - util::Errors (src/core/util.rs): the collector of the diagnostics.  *)
(* Option<T> is modelled as a sequence: None is <<>>, Some(x) is <<x>>.    *)
(* Item positions are the 0-based indices of the code.                     *)
(***************************************************************************)
EXTENDS Naturals, Integers, Sequences, FiniteSets, TLC

VARIABLES
  pstage,     \* "input" before TypeDefinition::parse has run, "parsed" after
  pinput,     \* the arguments of parse: module body, explicit name, base
  pmodule,    \* def.module: the module body, mutated in place by parse
  pdef,       \* the TypeDefinition that parse returns
  tcfg,       \* the type whose tables and dispatch functions are generated
  tables,     \* the generated static tables: called yet, and their entries
  base_index, \* _GENERATED_PROPERTIES_BASE_INDEX
  dispatch,   \* the last call of a generated dispatch function
  thr,        \* the threads that call the generated table functions
  lazy_owner, \* per table, the thread that runs its initializer (0: none)
  init_runs,  \* per table, how many times its initializer was started
  vcfg,       \* the virtual methods of a type and what its subclasses define
  slots,      \* per class struct, the vtable slot of each virtual method
  class_inited, \* the types whose one-time class initialisation has finished
  instances,  \* the types that have a live instance
  vcall,      \* the last call of a virtual method or of a parent accessor
  cstage,     \* "input" before ClassDefinition::from_type, "built", "emitted"
  cin,        \* the arguments of from_type: the options and the TypeDefinition
  cerrors,    \* the errors vector that from_type pushes to
  cdef,       \* the ClassDefinition that from_type returns
  ctokens,    \* what to_tokens emits for the class
  estage,     \* "open" while the Errors collector lives, "consumed" after
  ecol,       \* Errors::errors, the vector in the RefCell
  ecall,      \* the last call of a method of Errors, with its arguments
  eout,       \* what into_compile_errors returned
  icfg,       \* the run of the generated class_init of a descendant
  ipc,        \* the number of statements of class_init executed
  iclass,     \* the class struct the installer initialises
  iparent_done\* parent_class_init has returned

varsParse == <<pstage, pinput, pmodule, pdef>>
varsTable == <<tcfg, tables, base_index, dispatch>>

varsLazy == <<thr, lazy_owner, init_runs>>
varsVtable == <<vcfg, slots, class_inited, instances, vcall>>
varsClass == <<cstage, cin, cerrors, cdef, ctokens>>
varsErrors == <<estage, ecol, ecall, eout>>
varsInstaller == <<icfg, ipc, iclass, iparent_done>>

vars == <<pstage, pinput, pmodule, pdef, tcfg, tables, base_index, dispatch,
          thr, lazy_owner, init_runs,
          vcfg, slots, class_inited, instances, vcall,
          cstage, cin, cerrors, cdef, ctokens,
          estage, ecol, ecall, eout,
          icfg, ipc, iclass, iparent_done>>

-----------------------------------------------------------------------------
(* Bounds of the model *)

\* the longest module body (number of items)
MaxItems == 3
\* the most declared properties of a type
MaxProps == 2
\* the most declared signals of a type
MaxSignals == 2
\* the most entries the user's own method, or the custom statements, add
MaxExtra == 1

-----------------------------------------------------------------------------
(* Option *)

None == <<>>
Some(x) == <<x>>

-----------------------------------------------------------------------------
(* TypeDefinition::parse: the items of a module body *)

\* the identifiers a struct or a self-type may carry
Names == {"Foo", "Bar"}

\* syn::ItemImpl::trait_ is None: an inherent implementation block
NoTrait == "NoTrait"

\* syn::Visibility: Inherited (none written), Public (`pub`), or Restricted to
\* a path (`pub(self)`, `pub(super)`, `pub(crate)`, `pub(in a::b)`), the path
\* being the sequence of its segments
Inherited == [kind |-> "Inherited", path |-> <<>>]
Public == [kind |-> "Public", path |-> <<>>]
Restricted(path) == [kind |-> "Restricted", path |-> path]

\* inner_vis as TypeDefinition::parse constructs it: pub(super)
InnerMarker == Restricted(<<"super">>)

\* the visibilities a struct or the module is declared with
Visibilities ==
  {Inherited, Public, Restricted(<<"self">>), Restricted(<<"super">>),
   Restricted(<<"crate">>), Restricted(<<"super", "super">>),
   Restricted(<<"super", "a">>), Restricted(<<"crate", "a">>),
   Restricted(<<"self", "a">>)}

\* An item of the module body.  ident: the struct's identifier, or
\* type_ident(self_ty) of an implementation block (None when the self type is
\* not a single-segment path).  tag: the item carries #[properties] (a struct)
\* or #[methods] (an implementation block).  trait_: the tokens of the path of
\* the trait a block implements.  bang: the block is a negative
\* implementation (`impl !Trait for Type`), the first component of
\* syn::ItemImpl::trait_.  vis: the declared visibility of a struct.
\* generics: the tokens of the generic parameters of a struct or of a block.
\* fields: syn::Fields of a struct.  properties: how many of the fields carry
\* #[property].  signals, public_methods, virtual_methods: how many methods of
\* a block carry #[signal], #[public], #[virtual].

\* syn::Fields: the shape, and the fields in order (a named field by its
\* name, a tuple field by its type)
Fields(shape, list) == [shape |-> shape, list |-> list]

UnitFields == Fields("Unit", <<>>)

ItemStructOf(id, tag, vis, generics, fields, properties) ==
  [kind |-> "Struct", ident |-> Some(id), tag |-> tag, trait_ |-> NoTrait,
   bang |-> FALSE, vis |-> vis, generics |-> generics, fields |-> fields,
   properties |-> properties]

ItemStructVis(id, tag, vis) == ItemStructOf(id, tag, vis, "", UnitFields, 0)

ItemStruct(id, tag) == ItemStructVis(id, tag, Inherited)

ItemImplOf(ident, tag, trait_, generics, signals, public_methods, virtual_methods) ==
  [kind |-> "Impl", ident |-> ident, tag |-> tag, trait_ |-> trait_,
   bang |-> FALSE, generics |-> generics, signals |-> signals,
   public_methods |-> public_methods, virtual_methods |-> virtual_methods,
   wrapper_tag |-> FALSE, items |-> <<>>]

\* a block with items, which carries #[wrapper_methods] when wrapper_tag
ItemImplItems(ident, trait_, wrapper_tag, items) ==
  [ItemImplOf(ident, FALSE, trait_, "", 0, 0, 0) EXCEPT
     !.wrapper_tag = wrapper_tag, !.items = items]

ItemImpl(ident, tag, trait_) == ItemImplOf(ident, tag, trait_, "", 0, 0, 0)

ItemNegImpl(ident, trait_) ==
  [ItemImpl(ident, FALSE, trait_) EXCEPT !.bang = TRUE]

ItemOther ==
  [kind |-> "Other", ident |-> None, tag |-> FALSE, trait_ |-> NoTrait,
   bang |-> FALSE]

Items ==
  {ItemStruct(n, t) : n \in Names, t \in BOOLEAN}
    \cup {ItemImpl(i, t, NoTrait) : i \in {Some(n) : n \in Names} \cup {None},
                                     t \in BOOLEAN}
    \cup {ItemImpl(Some(n), FALSE, tr) : n \in Names, tr \in {"Send", "Sync", "Other"}}
    \cup {ItemOther}

TypeBase == {"Class", "Interface"}

\* type_ident(&*i.self_ty)
type_ident(item) == item.ident

\* extract_attr(&mut attrs, name).is_some(): the item carries the attribute
has_attr(item) == item.tag

\* extract_attr(&mut attrs, name): the attribute is removed from item i (1-based)
extract_attr(items, i) == [items EXCEPT ![i].tag = FALSE]

\* is_marker(path, marker) of the trait an implementation block implements:
\* the path is the bare identifier, or its tokens spell one of four paths
is_marker(trait_, marker) ==
  \/ trait_ = marker
  \/ trait_ = "std::marker::" \o marker
  \/ trait_ = "::std::marker::" \o marker
  \/ trait_ = "core::marker::" \o marker
  \/ trait_ = "::core::marker::" \o marker

-----------------------------------------------------------------------------
(* parse with an explicit name: one loop selects the struct and the block *)

\* the guard of the struct arm
ExplicitStructArmLast(item, struct_, name) ==
  item.kind = "Struct" /\ item.ident = Some(name)

ExplicitStructArm(item, struct_, name) ==
  item.kind = "Struct" /\ struct_ = None /\ item.ident = Some(name)

\* the guard of the implementation-block arm
ExplicitImplArm(item, impl_, name) ==
  /\ item.kind = "Impl"
  /\ impl_ = None
  /\ item.trait_ = NoTrait
  /\ type_ident(item) = Some(name)

RECURSIVE ExplicitLoop(_, _, _, _, _)
ExplicitLoop(items, name, i, struct_, impl_) ==
  IF i > Len(items)
  THEN [struct_ |-> struct_, impl_ |-> impl_, items |-> items]
  ELSE LET item == items[i]
           isS == ExplicitStructArm(item, struct_, name)
           isI == ~isS /\ ExplicitImplArm(item, impl_, name)
           s2 == IF isS THEN Some(i - 1) ELSE struct_
           i2 == IF isI THEN Some(i - 1) ELSE impl_
           items2 == IF isS \/ isI THEN extract_attr(items, i) ELSE items
       IN  IF s2 # None /\ i2 # None
           THEN [struct_ |-> s2, impl_ |-> i2, items |-> items2]
           ELSE ExplicitLoop(items2, name, i + 1, s2, i2)

-----------------------------------------------------------------------------
(* parse without a name: the struct first, then the implementation block *)

\* `else if first_struct.is_none()`: an untagged struct is remembered only
\* when none was before
FirstStructArmAlways(first_struct) == TRUE

FirstStructArm(first_struct) == first_struct = None

\* the loop over the structs: stops at the first one tagged #[properties]
RECURSIVE StructScan(_, _, _, _)
StructScan(items, i, first_struct, struct_name) ==
  IF i > Len(items)
  THEN [struct_ |-> None, first_struct |-> first_struct,
        struct_name |-> struct_name, items |-> items]
  ELSE LET item == items[i] IN
       IF item.kind = "Struct"
       THEN IF has_attr(item)
            THEN [struct_ |-> Some(i - 1), first_struct |-> first_struct,
                  struct_name |-> item.ident, items |-> extract_attr(items, i)]
            ELSE IF FirstStructArm(first_struct)
                 THEN StructScan(items, i + 1, Some(i - 1), item.ident)
                 ELSE StructScan(items, i + 1, first_struct, struct_name)
       ELSE StructScan(items, i + 1, first_struct, struct_name)

\* the struct selected once the loop is over
InferredStructFirst(scan) ==
  IF scan.first_struct # None THEN scan.first_struct ELSE scan.struct_

InferredStruct(scan) ==
  IF scan.struct_ = None THEN scan.first_struct ELSE scan.struct_

\* the loop over the implementation blocks when the name is known
RECURSIVE NamedImplLoop(_, _, _, _)
NamedImplLoop(items, name, i, impl_) ==
  IF i > Len(items)
  THEN [impl_ |-> impl_, items |-> items]
  ELSE LET item == items[i] IN
       IF /\ item.kind = "Impl"
          /\ impl_ = None
          /\ item.trait_ = NoTrait
          /\ type_ident(item) = Some(name)
       THEN NamedImplLoop(extract_attr(items, i), name, i + 1, Some(i - 1))
       ELSE NamedImplLoop(items, name, i + 1, impl_)

\* `else if first_impl.is_none()`: an untagged inherent block is remembered
\* only when none was before
FirstImplArmAlways(first_impl) == TRUE

FirstImplArm(first_impl) == first_impl = None

\* the loop over the implementation blocks when no name is known: stops at
\* the first inherent block tagged #[methods]
RECURSIVE ImplScan(_, _, _, _)
ImplScan(items, i, first_impl, impl_name) ==
  IF i > Len(items)
  THEN [impl_ |-> None, first_impl |-> first_impl,
        impl_name |-> impl_name, items |-> items]
  ELSE LET item == items[i] IN
       IF item.kind = "Impl" /\ item.trait_ = NoTrait
       THEN IF has_attr(item)
            THEN [impl_ |-> Some(i - 1), first_impl |-> first_impl,
                  impl_name |-> type_ident(item), items |-> extract_attr(items, i)]
            ELSE IF FirstImplArm(first_impl)
                 THEN ImplScan(items, i + 1, Some(i - 1), type_ident(item))
                 ELSE ImplScan(items, i + 1, first_impl, impl_name)
       ELSE ImplScan(items, i + 1, first_impl, impl_name)

\* the struct, the block and the name selected when no name is given
InferredSelection(items) ==
  LET scan == StructScan(items, 1, None, None)
      struct_ == InferredStruct(scan)
      name1 == IF struct_ # None THEN scan.struct_name ELSE None
  IN  IF name1 # None
      THEN LET r == NamedImplLoop(scan.items, name1[1], 1, None)
           IN  [struct_ |-> struct_, impl_ |-> r.impl_, name |-> name1,
                items |-> r.items]
      ELSE LET r == ImplScan(scan.items, 1, None, None)
               impl_ == IF r.impl_ = None THEN r.first_impl ELSE r.impl_
           IN  [struct_ |-> struct_, impl_ |-> impl_,
                name |-> IF impl_ # None THEN r.impl_name ELSE name1,
                items |-> r.items]

\* the struct, the block and the name selected when a name is given
ExplicitSelection(items, name) ==
  LET r == ExplicitLoop(items, name, 1, None, None)
  IN  [struct_ |-> r.struct_, impl_ |-> r.impl_, name |-> Some(name),
       items |-> r.items]

-----------------------------------------------------------------------------
(* parse: what follows the selection *)

\* the scan for the Send and Sync marker implementations of the struct
HasMarker(items, struct_name, marker) ==
  \E i \in 1..Len(items) :
    /\ items[i].kind = "Impl"
    /\ type_ident(items[i]) = Some(struct_name)
    /\ items[i].trait_ # NoTrait
    /\ is_marker(items[i].trait_, marker)

Concurrency(items, base, struct_) ==
  IF struct_ # None /\ base = "Class"
  THEN LET struct_name == items[struct_[1] + 1].ident[1]
       IN  IF HasMarker(items, struct_name, "Send")
              /\ HasMarker(items, struct_name, "Sync")
           THEN "SendSync" ELSE "None"
  ELSE "None"

\* the match on struct_.vis: the visibility the struct is left with, and the
\* external and internal visibility of the type
StructVisVerbatim(declared) ==
  [struct_vis |-> declared, vis |-> declared, inner_vis |-> declared]

StructVis(declared) ==
  CASE declared.kind = "Inherited" ->
         [struct_vis |-> InnerMarker, vis |-> Inherited, inner_vis |-> InnerMarker]
    [] declared.kind = "Restricted" /\ Len(declared.path) = 1
         /\ declared.path[1] = "self" ->
         [struct_vis |-> InnerMarker, vis |-> Inherited, inner_vis |-> InnerMarker]
    [] declared.kind = "Restricted" /\ Len(declared.path) > 1
         /\ declared.path[1] = "super" ->
         [struct_vis |-> declared, vis |-> Restricted(Tail(declared.path)),
          inner_vis |-> declared]
    [] OTHER ->
         [struct_vis |-> declared, vis |-> declared, inner_vis |-> declared]

\* without a struct: the match on the visibility of the module
ModuleVis(module_vis) ==
  CASE module_vis.kind = "Inherited" ->
         [vis |-> module_vis, inner_vis |-> InnerMarker]
    [] module_vis.kind = "Restricted" /\ Len(module_vis.path) = 1
         /\ module_vis.path[1] = "self" ->
         [vis |-> module_vis, inner_vis |-> InnerMarker]
    [] module_vis.kind = "Restricted" /\ module_vis.path # <<>>
         /\ module_vis.path[1] = "super" ->
         [vis |-> module_vis,
          inner_vis |-> Restricted(<<"super">> \o module_vis.path)]
    [] OTHER -> [vis |-> module_vis, inner_vis |-> module_vis]

\* Properties::from_derive_input(&input, Some(base), errors): the properties
\* of the fields that carry #[property], and the fields of the struct
from_derive_input(struct_) ==
  [properties |-> struct_.properties, fields |-> struct_.fields]

\* the hidden header of an interface struct: the field ____parent of a
\* struct with named fields, the type GTypeInterface of a tuple struct
HeaderNamed == "____parent"
HeaderUnnamed == "GTypeInterface"

\* if base == TypeBase::Interface { match &mut fields { ... } }
InterfaceFields(fields, base) ==
  IF base = "Interface"
  THEN CASE fields.shape = "Named" ->
              Fields("Named", <<HeaderNamed>> \o fields.list)
         [] fields.shape = "Unnamed" ->
              Fields("Unnamed", <<HeaderUnnamed>> \o fields.list)
         [] OTHER -> fields
  ELSE fields

\* Signal::many_from_items, PublicMethod::many_from_items and
\* VirtualMethod::many_from_items(&mut impl_.items, base, errors): the
\* members that the methods of the block declare
many_from_items(impl_, member) ==
  CASE member = "signals" -> impl_.signals
    [] member = "public_methods" -> impl_.public_methods
    [] member = "virtual_methods" -> impl_.virtual_methods

\* def.generics after the struct and the block: those of the struct, and
\* those of the block only when there is no struct
GenericsOfImplFirst(struct_, impl_) ==
  IF impl_ # None THEN Some(impl_[1].generics)
  ELSE IF struct_ # None THEN Some(struct_[1].generics)
  ELSE None

GenericsOf(struct_, impl_) ==
  IF struct_ # None THEN Some(struct_[1].generics)
  ELSE IF impl_ # None THEN Some(impl_[1].generics)
  ELSE None

\* syn::Signature of a method: whether its first input is a self receiver,
\* its typed arguments in order (the pattern of each is an identifier, or
\* some other pattern), and whether it declares a return type
Signature(ident, receiver, inputs, output) ==
  [ident |-> ident, receiver |-> receiver, inputs |-> inputs, output |-> output]

\* syn::ImplItem::Method: the signature, the #[constructor] attribute (None,
\* or Some(whether tokens follow its path)), whether it carries #[inline],
\* and its block: without statements, the user's, or the generated one
ImplItemMethod(sig, constructor, block) ==
  [kind |-> "Method", sig |-> sig, constructor |-> constructor,
   inline |-> FALSE, block |-> block]

\* an item of a block that is no method
ImplItemConst == [kind |-> "Const"]

\* TypeDefinition::check_constructor(method, attr, errors): the errors pushed
check_constructor_first_only(method, attr_tokens) ==
  IF attr_tokens THEN <<"Unknown tokens on constructor">>
  ELSE IF method.sig.receiver THEN <<"self not allowed on constructor">>
  ELSE IF ~method.sig.output THEN <<"Constructor must have a return type">>
  ELSE IF \E i \in 1..Len(method.sig.inputs) : method.sig.inputs[i] # "ident"
       THEN <<"Constructor argument must be an ident">>
       ELSE <<>>

check_constructor(method, attr_tokens) ==
  (IF attr_tokens THEN <<"Unknown tokens on constructor">> ELSE <<>>)
    \o (IF method.sig.receiver
        THEN <<"self not allowed on constructor">> ELSE <<>>)
    \o (IF ~method.sig.output
        THEN <<"Constructor must have a return type">> ELSE <<>>)
    \o [i \in 1..Len(SelectSeq(method.sig.inputs, LAMBDA a : a # "ident")) |->
          "Constructor argument must be an ident"]

\* TypeDefinition::fill_in_constructor(method, glib)
fill_in_constructor_always(method) ==
  [method EXCEPT !.inline = TRUE, !.block = "generated"]

fill_in_constructor(method) ==
  IF method.block = "empty"
  THEN [method EXCEPT !.inline = TRUE, !.block = "generated"]
  ELSE method

\* the body of the loop of extract_wrapper_methods for one item of the
\* block: the item as it is left, the signatures and the errors pushed
ExtractWrapperItem(item, base) ==
  IF item.kind # "Method"
  THEN [item |-> item, sigs |-> <<>>, errors |-> <<>>]
  ELSE IF base = "Class" /\ item.constructor # None
       THEN LET method == [item EXCEPT !.constructor = None]
            IN  [item |-> fill_in_constructor(method),
                 sigs |-> <<item.sig>>,
                 errors |-> check_constructor(method, item.constructor[1])]
       ELSE [item |-> item, sigs |-> <<item.sig>>, errors |-> <<>>]

\* TypeDefinition::extract_wrapper_methods(item, methods, base, glib, errors)
RECURSIVE extract_wrapper_methods(_, _, _)
extract_wrapper_methods(impl_items, base, k) ==
  IF k > Len(impl_items)
  THEN [items |-> impl_items, sigs |-> <<>>, errors |-> <<>>]
  ELSE LET r == ExtractWrapperItem(impl_items[k], base)
           rest == extract_wrapper_methods(
                     [impl_items EXCEPT ![k] = r.item], base, k + 1)
       IN  [items |-> rest.items, sigs |-> r.sigs \o rest.sigs,
            errors |-> r.errors \o rest.errors]

\* the last loop of parse: every inherent block that carries
\* #[wrapper_methods] loses the attribute and has its methods extracted
RECURSIVE WrapperMethodsLoop(_, _, _)
WrapperMethodsLoop(items, base, k) ==
  IF k > Len(items)
  THEN [items |-> items, sigs |-> <<>>, errors |-> <<>>]
  ELSE IF items[k].kind = "Impl" /\ items[k].trait_ = NoTrait
          /\ items[k].wrapper_tag
       THEN LET r == extract_wrapper_methods(items[k].items, base, 1)
                rest == WrapperMethodsLoop(
                          [items EXCEPT ![k].wrapper_tag = FALSE,
                                        ![k].items = r.items], base, k + 1)
            IN  [items |-> rest.items, sigs |-> r.sigs \o rest.sigs,
                 errors |-> r.errors \o rest.errors]
       ELSE WrapperMethodsLoop(items, base, k + 1)

\* the TypeDefinition as constructed before anything is resolved
NewDef(name) ==
  [name |-> name, properties_item_index |-> None, methods_item_index |-> None,
   concurrency |-> "None", errors |-> <<>>,
   vis |-> Inherited, inner_vis |-> InnerMarker,
   generics |-> None, properties |-> 0, signals |-> 0,
   public_methods |-> 0, virtual_methods |-> 0, wrapper_methods |-> <<>>]

\* TypeDefinition::parse(module, base, name, crate_ident, errors)
ParseResult(input) ==
  IF ~input.hasBody
  THEN [def |-> [NewDef(input.name) EXCEPT
                   !.errors = <<"Module must have a body to use the class macro">>],
        items |-> input.items]
  ELSE LET sel == IF input.name # None
                  THEN ExplicitSelection(input.items, input.name[1])
                  ELSE InferredSelection(input.items)
           name == IF sel.struct_ # None
                   THEN sel.items[sel.struct_[1] + 1].ident
                   ELSE sel.name
           v == IF sel.struct_ # None
                THEN StructVis(sel.items[sel.struct_[1] + 1].vis)
                ELSE ModuleVis(input.vis)
           struct_ == IF sel.struct_ # None
                      THEN Some(sel.items[sel.struct_[1] + 1]) ELSE None
           impl_ == IF sel.impl_ # None
                    THEN Some(sel.items[sel.impl_[1] + 1]) ELSE None
           p == IF struct_ # None THEN from_derive_input(struct_[1])
                ELSE [properties |-> 0, fields |-> UnitFields]
           member(m) == IF impl_ # None THEN many_from_items(impl_[1], m) ELSE 0
           items1 == IF sel.struct_ # None
                     THEN [sel.items EXCEPT
                             ![sel.struct_[1] + 1].vis = v.struct_vis,
                             ![sel.struct_[1] + 1].fields =
                                InterfaceFields(p.fields, input.base)]
                     ELSE sel.items
           w == WrapperMethodsLoop(items1, input.base, 1)
       IN  [def |-> [name |-> name,
                     properties_item_index |-> sel.struct_,
                     methods_item_index |-> sel.impl_,
                     concurrency |-> Concurrency(sel.items, input.base, sel.struct_),
                     errors |-> w.errors,
                     wrapper_methods |-> w.sigs,
                     vis |-> v.vis, inner_vis |-> v.inner_vis,
                     generics |-> GenericsOf(struct_, impl_),
                     properties |-> p.properties,
                     signals |-> member("signals"),
                     public_methods |-> member("public_methods"),
                     virtual_methods |-> member("virtual_methods")],
            items |-> w.items]

-----------------------------------------------------------------------------
(* The type whose registration tables and dispatch functions are generated *)

\* the access modes of a property
AccessModes == {"readable", "writable", "readwrite", "construct_only"}

\* the modes in which a property can be read, and those in which it can be set
Readable(mode) == mode \in {"readable", "readwrite"}
Writable(mode) == mode \in {"writable", "readwrite", "construct_only"}

\* the generated static tables
TableNames == {"properties", "signals", "derived_properties"}

\* has_method/extra: the user's implementation block defines a method of the
\* table's name, which returns `len` entries of its own
UserMethods == {[has_method |-> FALSE, len |-> 0]}
                 \cup {[has_method |-> TRUE, len |-> k] : k \in 0..MaxExtra}

\* custom_stmts_for(name): None, or the statements spliced into the method,
\* each of which pushes one entry
CustomStmts == {None} \cup {Some(k) : k \in 1..MaxExtra}

\* what the generated tables and dispatch functions read of a TypeDefinition:
\* whether the name is resolved, the base, the access modes of the declared
\* properties in declaration order, the number of declared signals, and per
\* table the user's own method and the custom statements
TypeConfig(hasName, base, properties, signals, user, custom) ==
  [hasName |-> hasName, base |-> base, properties |-> properties,
   signals |-> signals, user |-> user, custom |-> custom]

\* one entry of a table: where it comes from and its position there
Entry(origin, i) == [origin |-> origin, index |-> i]

\* properties.extend(#sub_ty::properties()): the entries of the user's method
ExtraEntries(user) ==
  IF user.has_method THEN [i \in 1..user.len |-> Entry("method", i - 1)] ELSE <<>>

\* #custom: the entries the spliced statements push, in declaration order
CustomEntries(custom) ==
  IF custom = None THEN <<>> ELSE [i \in 1..custom[1] |-> Entry("custom", i - 1)]

\* [#(#defs),*]: one descriptor per declared member, in declaration order
DefsSkipFirst(n) == [i \in 1..(IF n = 0 THEN 0 ELSE n - 1) |-> Entry("declared", i)]

Defs(n) == [i \in 1..n |-> Entry("declared", i - 1)]

\* base_index_set: the statement that sets _GENERATED_PROPERTIES_BASE_INDEX
\* is part of the initializer of PROPS
base_index_set(cfg) ==
  /\ cfg.base = "Class"
  /\ cfg.properties # <<>>
  /\ cfg.user["properties"].has_method

\* the initializer of PROPS, as emitted by TypeDefinition::properties_method:
\* the table it returns and the value it sets the base index to
PropertiesBody(cfg) ==
  LET properties1 == ExtraEntries(cfg.user["properties"])
      properties2 == properties1 \o CustomEntries(cfg.custom["properties"])
  IN  [entries |-> properties2 \o Defs(Len(cfg.properties)),
       base_index |-> IF base_index_set(cfg) THEN Some(Len(properties2)) ELSE None]

\* TypeDefinition::properties_method is Some: fn properties() is emitted
PropertiesEmitted(cfg) ==
  /\ ~(/\ cfg.properties = <<>>
       /\ ~cfg.user["properties"].has_method
       /\ cfg.custom["properties"] = None)
  /\ cfg.hasName

\* the initializer of SIGNALS, as emitted by TypeDefinition::signals_method
SignalsBodyDefsFirst(cfg) ==
  Defs(cfg.signals) \o ExtraEntries(cfg.user["signals"])
    \o CustomEntries(cfg.custom["signals"])

SignalsBody(cfg) ==
  LET signals1 == ExtraEntries(cfg.user["signals"])
      signals2 == signals1 \o CustomEntries(cfg.custom["signals"])
  IN  signals2 \o Defs(cfg.signals)

\* TypeDefinition::signals_method is Some: fn signals() is emitted
SignalsEmitted(cfg) ==
  /\ ~(/\ cfg.signals = 0
       /\ ~cfg.user["signals"].has_method
       /\ cfg.custom["signals"] = None)
  /\ cfg.hasName

\* the initializer of PROPS in derived_class_properties: vec![#(#defs),*]
DerivedPropertiesBody(cfg) == Defs(Len(cfg.properties))

\* the initializer of table f
TableBody(cfg, f) ==
  CASE f = "properties" -> PropertiesBody(cfg).entries
    [] f = "signals" -> SignalsBody(cfg)
    [] f = "derived_properties" -> DerivedPropertiesBody(cfg)

TableEmitted(cfg, f) ==
  CASE f = "properties" -> PropertiesEmitted(cfg)
    [] f = "signals" -> SignalsEmitted(cfg)
    [] f = "derived_properties" -> TRUE

NoTable == [built |-> FALSE, entries |-> <<>>]

\* the first call of the generated fn properties(): Lazy runs the initializer
CallProperties ==
  /\ PropertiesEmitted(tcfg)
  /\ ~tables["properties"].built
  /\ LET r == PropertiesBody(tcfg)
     IN  /\ tables' = [tables EXCEPT !["properties"] =
                         [built |-> TRUE, entries |-> r.entries]]
         /\ base_index' = IF r.base_index # None THEN r.base_index ELSE base_index
  /\ UNCHANGED <<tcfg, dispatch>>

\* the first call of the generated fn signals()
CallSignals ==
  /\ SignalsEmitted(tcfg)
  /\ ~tables["signals"].built
  /\ tables' = [tables EXCEPT !["signals"] =
                  [built |-> TRUE, entries |-> SignalsBody(tcfg)]]
  /\ UNCHANGED <<tcfg, base_index, dispatch>>

\* the first call of the generated fn derived_properties()
CallDerivedProperties ==
  /\ ~tables["derived_properties"].built
  /\ tables' = [tables EXCEPT !["derived_properties"] =
                  [built |-> TRUE, entries |-> DerivedPropertiesBody(tcfg)]]
  /\ UNCHANGED <<tcfg, base_index, dispatch>>

-----------------------------------------------------------------------------
(* The once-only initialisation of the generated tables: each table is a    *)
(* static once_cell::sync::Lazy, and the generated function dereferences it *)

\* the threads of the process
NThreads == 2
Threads == 1..NThreads

\* the statements spliced into the initializer of PROPS, in the order
\* `#extra #custom #base_index_set properties.extend([#(#defs),*])`
PropertiesStmts(cfg) ==
  (IF cfg.user["properties"].has_method THEN <<"extra">> ELSE <<>>)
    \o (IF cfg.custom["properties"] # None THEN <<"custom">> ELSE <<>>)
    \o (IF base_index_set(cfg) THEN <<"base_index_set">> ELSE <<>>)
    \o <<"defs">>

\* the statements of the initializer of SIGNALS: `#extra #custom
\* signals.extend([#(#defs),*])`
SignalsStmts(cfg) ==
  (IF cfg.user["signals"].has_method THEN <<"extra">> ELSE <<>>)
    \o (IF cfg.custom["signals"] # None THEN <<"custom">> ELSE <<>>)
    \o <<"defs">>

\* the initializer of the derived PROPS: `vec![#(#defs),*]`
DerivedPropertiesStmts(cfg) == <<"defs">>

InitStmts(cfg, f) ==
  CASE f = "properties" -> PropertiesStmts(cfg)
    [] f = "signals" -> SignalsStmts(cfg)
    [] f = "derived_properties" -> DerivedPropertiesStmts(cfg)

\* the number of declared members behind table f
DeclaredCount(cfg, f) ==
  IF f = "signals" THEN cfg.signals ELSE Len(cfg.properties)

\* the local vector of the initializer of table f after one statement
ExecStmt(cfg, f, stmt, local) ==
  CASE stmt = "extra" -> local \o ExtraEntries(cfg.user[f])
    [] stmt = "custom" -> local \o CustomEntries(cfg.custom[f])
    [] stmt = "base_index_set" -> local
    [] stmt = "defs" -> local \o Defs(DeclaredCount(cfg, f))

IdleThread == [pc |-> "idle", f |-> "properties", ip |-> 0,
               local |-> <<>>, seen |-> <<>>]

\* thread t calls the generated function of table f
CallTable(t, f) ==
  /\ thr[t].pc = "idle"
  /\ TableEmitted(tcfg, f)
  /\ thr' = [thr EXCEPT ![t] = [IdleThread EXCEPT !.pc = "force", !.f = f]]
  /\ UNCHANGED <<tcfg, tables, base_index, dispatch, lazy_owner, init_runs>>

\* Lazy::new(|| ...) dereferenced: the thread that finds the cell empty and
\* not being initialised runs the initializer
CanStartInitRacy(f) == ~tables[f].built

CanStartInit(f) == ~tables[f].built /\ lazy_owner[f] = 0

\* Deref::deref(&PROPS) on an empty cell: thread t becomes the initializer and
\* enters the closure (`let mut properties = Vec::new()`); the threads that
\* find the cell being initialised wait
LazyStartInit(t) ==
  /\ thr[t].pc = "force"
  /\ CanStartInit(thr[t].f)
  /\ lazy_owner' = [lazy_owner EXCEPT ![thr[t].f] = t]
  /\ init_runs' = [init_runs EXCEPT ![thr[t].f] = @ + 1]
  /\ thr' = [thr EXCEPT ![t].pc = "init", ![t].ip = 1, ![t].local = <<>>]
  /\ UNCHANGED <<tcfg, tables, base_index, dispatch>>

\* one statement of the initializer, run by the initializing thread;
\* _GENERATED_PROPERTIES_BASE_INDEX.set(properties.len()).unwrap() panics
\* when the index is set already
InitStep(t) ==
  /\ thr[t].pc = "init"
  /\ thr[t].ip <= Len(InitStmts(tcfg, thr[t].f))
  /\ LET stmt == InitStmts(tcfg, thr[t].f)[thr[t].ip]
     IN  IF stmt = "base_index_set" /\ base_index # None
         THEN /\ thr' = [thr EXCEPT ![t].pc = "panicked"]
              /\ UNCHANGED base_index
         ELSE /\ thr' = [thr EXCEPT
                           ![t].ip = @ + 1,
                           ![t].local = ExecStmt(tcfg, thr[t].f, stmt, @)]
              /\ base_index' = IF stmt = "base_index_set"
                               THEN Some(Len(thr[t].local))
                               ELSE base_index
  /\ UNCHANGED <<tcfg, tables, dispatch, lazy_owner, init_runs>>

\* the closure returns `properties`: the cell is filled, and the initializing
\* thread gets a reference to its contents
LazyPublish(t) ==
  /\ thr[t].pc = "init"
  /\ thr[t].ip > Len(InitStmts(tcfg, thr[t].f))
  /\ tables' = [tables EXCEPT ![thr[t].f] =
                  [built |-> TRUE, entries |-> thr[t].local]]
  /\ lazy_owner' = [lazy_owner EXCEPT ![thr[t].f] = 0]
  /\ thr' = [thr EXCEPT ![t].pc = "done", ![t].seen = thr[t].local]
  /\ UNCHANGED <<tcfg, base_index, dispatch, init_runs>>

\* Deref::deref(&PROPS) on a filled cell: AsRef::as_ref of its contents
LazyGet(t) ==
  /\ thr[t].pc = "force"
  /\ tables[thr[t].f].built
  /\ thr' = [thr EXCEPT ![t].pc = "done", ![t].seen = tables[thr[t].f].entries]
  /\ UNCHANGED <<tcfg, tables, base_index, dispatch, lazy_owner, init_runs>>

\* the caller is done with the slice it got
ReturnTable(t) ==
  /\ thr[t].pc = "done"
  /\ thr' = [thr EXCEPT ![t] = IdleThread]
  /\ UNCHANGED <<tcfg, tables, base_index, dispatch, lazy_owner, init_runs>>

-----------------------------------------------------------------------------
(* The generated dispatch functions set_property and property *)

\* Property::set_impl(index, go) is an Option: the branch of the property
\* declared at `index`, which handles the id index + 1 and returns; a property
\* that cannot be set has no branch
set_impl(index, prop) ==
  IF Writable(prop) THEN Some([index |-> index, id |-> index + 1]) ELSE None

\* Property::get_impl(index, go): a property that cannot be read has no branch
get_impl(index, prop) ==
  IF Readable(prop) THEN Some([index |-> index, id |-> index + 1]) ELSE None

RECURSIVE FilterMap(_, _)
FilterMap(opts, i) ==
  IF i > Len(opts) THEN <<>> ELSE opts[i] \o FilterMap(opts, i + 1)

\* properties.iter().enumerate().filter_map(|(index, prop)| prop.set_impl(index, go))
SetImplsSkipFirst(properties) ==
  FilterMap([i \in 1..Len(properties) |->
               IF i = 1 THEN None ELSE set_impl(i - 1, properties[i])], 1)

SetImpls(properties) ==
  FilterMap([i \in 1..Len(properties) |-> set_impl(i - 1, properties[i])], 1)

\* properties.iter().enumerate().filter_map(|(index, prop)| prop.get_impl(index, go))
GetImpls(properties) ==
  FilterMap([i \in 1..Len(properties) |-> get_impl(i - 1, properties[i])], 1)

\* the body `#(#impls)* #unimplemented` run with `id`: the first branch that
\* handles id returns, and the end of the body is the fault of
\* unimplemented_property
RunDispatch(impls, id) ==
  LET hits == {i \in 1..Len(impls) : impls[i].id = id}
  IN  IF hits = {}
      THEN [outcome |-> "invalid property id", index |-> None]
      ELSE [outcome |-> "handled",
            index |-> Some(impls[CHOOSE i \in hits : \A j \in hits : i <= j].index)]

\* ClassDefinition::set_property_method / property_method is Some
DispatchEmitted(cfg) == cfg.properties # <<>> /\ cfg.hasName

NoDispatch == [fn |-> "none", id |-> 0, outcome |-> "none", index |-> None]

\* the ids a caller may pass: 0, the declared ones, and those past the end
DispatchIds == 0..(MaxProps + 2)

\* a call of the generated fn set_property(&self, obj, id, value, pspec)
SetProperty(id) ==
  /\ DispatchEmitted(tcfg)
  /\ LET r == RunDispatch(SetImpls(tcfg.properties), id)
     IN  dispatch' = [fn |-> "set_property", id |-> id,
                      outcome |-> r.outcome, index |-> r.index]
  /\ UNCHANGED <<tcfg, tables, base_index>>

\* a call of the generated fn property(&self, obj, id, pspec)
GetProperty(id) ==
  /\ DispatchEmitted(tcfg)
  /\ LET r == RunDispatch(GetImpls(tcfg.properties), id)
     IN  dispatch' = [fn |-> "property", id |-> id,
                      outcome |-> r.outcome, index |-> r.index]
  /\ UNCHANGED <<tcfg, tables, base_index>>

\* a call of derived_set_property, emitted by derived_class_properties
DerivedSetProperty(id) ==
  /\ LET r == RunDispatch(SetImpls(tcfg.properties), id)
     IN  dispatch' = [fn |-> "derived_set_property", id |-> id,
                      outcome |-> r.outcome, index |-> r.index]
  /\ UNCHANGED <<tcfg, tables, base_index>>

\* a call of derived_get_property, emitted by derived_class_properties
DerivedGetProperty(id) ==
  /\ LET r == RunDispatch(GetImpls(tcfg.properties), id)
     IN  dispatch' = [fn |-> "derived_get_property", id |-> id,
                      outcome |-> r.outcome, index |-> r.index]
  /\ UNCHANGED <<tcfg, tables, base_index>>

\* no type is being generated
NoUserMethods ==
  [f \in {"properties", "signals"} |-> [has_method |-> FALSE, len |-> 0]]

NoCustomStmts == [f \in {"properties", "signals"} |-> None]

IdleCfg == TypeConfig(FALSE, "Class", <<>>, 0, NoUserMethods, NoCustomStmts)

IdleTable ==
  /\ tcfg = IdleCfg
  /\ tables = [f \in TableNames |-> NoTable]
  /\ base_index = None
  /\ dispatch = NoDispatch

-----------------------------------------------------------------------------
(* The generated vtable initialisation and the dispatch of virtual methods. *)
(* Type 0 declares the virtual methods; type t + 1 is a subclass of type t. *)

\* the deepest subclass of the declaring type
MaxDepth == 2
Types == 0..MaxDepth
Subclasses == 1..MaxDepth

\* self.virtual_methods of the declaring type
VMethods == {"vfunc_a", "vfunc_b"}

\* has_default[m]: virtual method m is declared with a default body;
\* defines[t][m]: the implementation of the generated trait for subclass t
\* defines m (otherwise the trait's default definition of m is used)
VtableConfig(has_default, defines) ==
  [has_default |-> has_default, defines |-> defines]

\* VirtualMethod::vtable_field: the function pointer of a class struct, which
\* no class initialisation has assigned yet
UnsetSlot == [kind |-> "unset", owner |-> 0]

\* VirtualMethod::set_default_trampoline: the slot points at the default
\* trampoline of the declaring type
DefaultTrampoline == [kind |-> "default", owner |-> 0]

\* VirtualMethod::set_subclassed_trampoline: the slot points at the
\* trampoline that calls the method of the trait implementation of subclass t
SubclassedTrampoline(t) == [kind |-> "subclassed", owner |-> t]

\* one assignment per virtual method, to the class struct being initialised
default_vtable_assignments_none(class) == class

default_vtable_assignments(class) == [m \in VMethods |-> DefaultTrampoline]

\* #set_vtable, then the class handlers of the signals (which are no slots)
type_init_body(class) == default_vtable_assignments(class)

\* one assignment per virtual method, whatever the subclass defines
subclassed_vtable_assignments_none(t, class) == class

subclassed_vtable_assignments(t, class) ==
  [m \in VMethods |-> SubclassedTrampoline(t)]

child_type_init_body(t, class) == subclassed_vtable_assignments(t, class)

\* the class struct of the parent type of t
parent_class(t) == t - 1

\* what a call ends in: the default body of the declaring type, the stub of a
\* method declared without a body, the method of a subclass, or a fault
DefaultBody == [kind |-> "default_body", owner |-> 0]
NotImplemented == [kind |-> "not_implemented", owner |-> 0]
SubclassImpl(t) == [kind |-> "subclass", owner |-> t]
NullSlot(t) == [kind |-> "null_slot", owner |-> t]
StackOverflow(t) == [kind |-> "stack_overflow", owner |-> t]

\* VirtualMethod::parent_definition: the accessor calls through the slot of
\* the class struct of the parent type
parent_definition(t, m, sl) ==
  [class |-> parent_class(t), slot |-> sl[parent_class(t)][m]]

\* impl<T: #trait_name> #ext_trait_name for T: the parent accessor of m that
\* every subclass t gets
impl_ext_trait_own_slot(t, m, sl) == [class |-> t, slot |-> sl[t][m]]

impl_ext_trait(t, m, sl) == parent_definition(t, m, sl)

\* A call through the slot of class struct c: the default trampoline runs the
\* default body; the subclassed trampoline runs the method of the trait
\* implementation of its subclass, and where that is the trait's default
\* definition, the parent accessor of that subclass.  visited: the class
\* structs whose slot was called through.  fuel bounds the depth of the stack.
RECURSIVE CallSlot(_, _, _, _, _, _)
CallSlot(c, slot, m, sl, cfg, fuel) ==
  CASE fuel = 0 -> [at |-> StackOverflow(c), visited |-> <<c>>]
    [] fuel > 0 /\ slot.kind = "unset" -> [at |-> NullSlot(c), visited |-> <<c>>]
    [] fuel > 0 /\ slot.kind = "default" ->
         [at |-> IF cfg.has_default[m] THEN DefaultBody ELSE NotImplemented,
          visited |-> <<c>>]
    [] fuel > 0 /\ slot.kind = "subclassed" ->
         IF cfg.defines[slot.owner][m]
         THEN [at |-> SubclassImpl(slot.owner), visited |-> <<c>>]
         ELSE LET p == impl_ext_trait(slot.owner, m, sl)
                  r == CallSlot(p.class, p.slot, m, sl, cfg, fuel - 1)
              IN  [at |-> r.at, visited |-> <<c>> \o r.visited]

\* the deepest stack of a call: one frame per type, and one to spare
StackDepth == MaxDepth + 2

NoCall == [active |-> FALSE, t |-> 0, m |-> "vfunc_a", at |-> DefaultBody,
           visited |-> <<>>, parent_calls |-> 0]

\* class_init of the declaring type, run once by the type system
DeclaringClassInit ==
  /\ 0 \notin class_inited
  /\ slots' = [slots EXCEPT ![0] = type_init_body(@)]
  /\ class_inited' = class_inited \cup {0}
  /\ UNCHANGED <<vcfg, instances, vcall>>

\* IsSubclassable::class_init for subclass t, run once by the type system
\* after the class of the parent: the class struct starts as a copy of the
\* parent's, parent_class_init initialises the part of the ancestors of the
\* declaring type, and #body assigns the slots
SubclassClassInit(t) ==
  /\ t \notin class_inited
  /\ parent_class(t) \in class_inited
  /\ slots' = [slots EXCEPT ![t] = child_type_init_body(t, slots[parent_class(t)])]
  /\ class_inited' = class_inited \cup {t}
  /\ UNCHANGED <<vcfg, instances, vcall>>

\* instance_init: an instance of type t is created
NewInstanceReinit(t) ==
  /\ t \in class_inited
  /\ instances' = instances \cup {t}
  /\ slots' = [slots EXCEPT ![t] = type_init_body(@)]
  /\ UNCHANGED <<vcfg, class_inited, vcall>>

NewInstance(t) ==
  /\ t \in class_inited
  /\ t \notin instances
  /\ instances' = instances \cup {t}
  /\ UNCHANGED <<vcfg, slots, class_inited, vcall>>

\* virtual method m is called on an instance of type t: the call goes
\* through the slot of the instance's class
CallMethod(t, m) ==
  /\ t \in instances
  /\ LET r == CallSlot(t, slots[t][m], m, slots, vcfg, StackDepth)
     IN  vcall' = [active |-> TRUE, t |-> t, m |-> m, at |-> r.at,
                   visited |-> r.visited, parent_calls |-> 0]
  /\ UNCHANGED <<vcfg, slots, class_inited, instances>>

\* the method of a subclass that the call is in calls the parent accessor
ChainToParent ==
  /\ vcall.active
  /\ vcall.at.kind = "subclass"
  /\ LET p == impl_ext_trait(vcall.at.owner, vcall.m, slots)
         r == CallSlot(p.class, p.slot, vcall.m, slots, vcfg, StackDepth)
     IN  vcall' = [vcall EXCEPT !.at = r.at,
                                !.visited = @ \o r.visited,
                                !.parent_calls = @ + 1]
  /\ UNCHANGED <<vcfg, slots, class_inited, instances>>

IdleVtable ==
  /\ vcfg = VtableConfig([m \in VMethods |-> FALSE],
                         [t \in Subclasses |-> [m \in VMethods |-> FALSE]])
  /\ slots = [t \in Types |-> [m \in VMethods |-> UnsetSlot]]
  /\ class_inited = {}
  /\ instances = {}
  /\ vcall = NoCall

-----------------------------------------------------------------------------
(* ClassDefinition: validation of the options, construction, and what
   to_tokens emits beside the module *)

\* the most public methods, and the most virtual methods, of a type
MaxMethods == 2

\* the options of the class attribute that validation and emission read
ClassAttrs(name, ext_trait, abstract_, final_, wrapper) ==
  [name |-> name, ext_trait |-> ext_trait, abstract_ |-> abstract_,
   final_ |-> final_, wrapper |-> wrapper]

\* what from_type and to_tokens read of a TypeDefinition without custom
\* statements: its name, whether it has generics, the number of its public
\* and of its virtual methods, its signals (for each, whether it has a default
\* handler), the items of its module and the positions of the struct and of
\* the implementation block
ClassInnerOf(name, generics, public_methods, virtual_methods, signals, module, properties_item_index, methods_item_index) ==
  [name |-> name, generics |-> generics, public_methods |-> public_methods,
   virtual_methods |-> virtual_methods, signals |-> signals,
   module |-> module, properties_item_index |-> properties_item_index,
   methods_item_index |-> methods_item_index]

\* the TypeDefinition of a type without signals, in an empty module
ClassInner(name, generics, public_methods, virtual_methods) ==
  ClassInnerOf(name, generics, public_methods, virtual_methods, <<>>,
               <<>>, None, None)

\* check_flag(&flag): the span of a flag that is set
check_flag(flag) == IF flag THEN Some("span") ELSE None

\* only_one([&abstract_, &final_], errors): one error when more than one of
\* the flags is set
only_one(flags) ==
  IF Cardinality({i \in 1..Len(flags) : flags[i][2] # None}) > 1
  THEN <<"only one of abstract, final is allowed">>
  ELSE <<>>

MissingName ==
  "Class must have a name parameter or a properties struct"

\* Attrs::validate(&self, def, errors): the errors it pushes
validate_name_only(attrs, def) ==
  IF attrs.name = None THEN <<MissingName>> ELSE <<>>

validate(attrs, def) ==
  (IF attrs.name = None THEN <<MissingName>> ELSE <<>>)
    \o only_one(<< <<"abstract", check_flag(attrs.abstract_)>>,
                   <<"final", check_flag(attrs.final_)>> >>)

\* TypeDefinition::set_name: the name option becomes the name of the type
set_name(def, name) == [def EXCEPT !.name = Some(name)]

\* syn::Item::Verbatim of generated tokens
ItemVerbatim(tokens) == [kind |-> "Verbatim", tokens |-> tokens]

\* TypeDefinition::type_: None without a name
type_(def) == IF def.name = None THEN None ELSE Some(def.name[1])

\* TypeDefinition::type_struct_fields: one field per virtual method, in
\* the order of virtual_methods
type_struct_fields_none(def) == <<>>

type_struct_fields(def) ==
  IF type_(def) = None THEN <<>>
  ELSE [i \in 1..def.virtual_methods |-> i]

\* the tokens of TypeDefinition::default_vtable_assignments: one assignment
\* per virtual method, in the order of virtual_methods
default_vtable_tokens(def) ==
  IF def.virtual_methods = 0 THEN None
  ELSE IF def.name = None THEN None
  ELSE IF type_(def) = None THEN None
  ELSE Some([i \in 1..def.virtual_methods |-> i])

\* the tokens of TypeDefinition::type_init_body: the assignments and the
\* class handlers that the signals override
type_init_tokens(def) ==
  IF type_(def) = None THEN None
  ELSE LET set_vtable == default_vtable_tokens(def)
           overrides == SelectSeq(def.signals, LAMBDA h : h)
       IN  IF set_vtable = None /\ overrides = <<>> THEN None
           ELSE Some([set_vtable |-> set_vtable, overrides |-> Len(overrides)])

\* TypeDefinition::private_methods: a chain accessor per signal that has one
private_methods(def) == SelectSeq(def.signals, LAMBDA h : h)

\* TypeDefinition::extra_private_items: the id cell of each signal, then
\* the block of the private methods
inner_extra_private_items(def) ==
  IF def.name = None THEN <<>>
  ELSE IF type_(def) = None THEN <<>>
  ELSE [i \in 1..Len(def.signals) |-> "signal_id_cell"]
         \o (IF private_methods(def) # <<>> THEN <<"private_methods">> ELSE <<>>)

\* ClassDefinition::class_struct_definition
class_struct_definition(class) ==
  LET fields == type_struct_fields(class.inner)
  IN  IF fields = <<>> THEN None
      ELSE IF class.inner.name = None THEN None
      ELSE IF ~class.inner.generics THEN None
      ELSE Some([name |-> class.inner.name[1] \o "Class", fields |-> fields])

\* ClassDefinition::object_subclass_impl
object_subclass_impl_unnamed(class) == Some("object_subclass_impl")

object_subclass_impl(class) ==
  IF class.inner.name = None THEN None ELSE Some("object_subclass_impl")

\* ClassDefinition::object_impl_impl
object_impl_impl(class) ==
  IF class.inner.name = None THEN None ELSE Some("object_impl_impl")

\* ClassDefinition::extra_private_items, for a type without custom methods:
\* the items of the TypeDefinition, then the implementations that exist
extra_private_items(class) ==
  LET opt(o, t) == IF o = None THEN <<>> ELSE <<t>>
      tokens == inner_extra_private_items(class.inner)
                  \o opt(object_subclass_impl(class), "object_subclass_impl")
                  \o opt(object_impl_impl(class), "object_impl_impl")
                  \o opt(class_struct_definition(class), "class_struct_definition")
  IN  [i \in 1..Len(tokens) |-> ItemVerbatim(tokens[i])]

\* items.extend(extra): the items are added after those of the module
ExtendItemsFront(items, extra) == extra \o items

ExtendItems(items, extra) == items \o extra

\* the ClassDefinition that from_type builds
BuildClass(attrs, def) ==
  LET class == [inner |-> IF attrs.name # None
                          THEN set_name(def, attrs.name[1]) ELSE def,
                ext_trait |-> attrs.ext_trait,
                wrapper |-> IF attrs.wrapper = None THEN TRUE
                            ELSE attrs.wrapper[1],
                abstract_ |-> attrs.abstract_,
                final_ |-> attrs.final_]
  IN  [class EXCEPT !.inner.module =
         ExtendItems(class.inner.module, extra_private_items(class))]

NoClass ==
  [inner |-> ClassInner(None, FALSE, 0, 0), ext_trait |-> None,
   wrapper |-> FALSE, abstract_ |-> FALSE, final_ |-> FALSE]

\* ClassDefinition::ext_trait
ext_trait_ignoring_final(class) ==
  IF class.inner.name = None THEN None
  ELSE IF class.ext_trait # None THEN class.ext_trait
       ELSE Some(class.inner.name[1] \o "Ext")

ext_trait(class) ==
  IF class.final_ THEN None
  ELSE IF class.inner.name = None THEN None
  ELSE IF class.ext_trait # None THEN class.ext_trait
       ELSE Some(class.inner.name[1] \o "Ext")

\* TypeDefinition::public_method_definitions: None without a name, else one
\* definition per public method and per virtual method
public_method_definitions(def) ==
  IF def.name = None THEN None
  ELSE Some(def.public_methods + def.virtual_methods)

\* TypeDefinition::public_methods(trait_name): nothing without definitions;
\* a trait and its blanket implementation under trait_name; or an inherent
\* implementation on the wrapper type super::#name
public_methods(def, trait_name) ==
  LET items == public_method_definitions(def)
  IN  IF items = None THEN None
      ELSE IF items[1] = 0 THEN None
      ELSE IF trait_name # None
           THEN Some([form |-> "trait", name |-> trait_name[1],
                      generics |-> def.generics, items |-> items[1]])
           ELSE Some([form |-> "inherent", name |-> def.name[1],
                      generics |-> def.generics, items |-> items[1]])

\* the tokens of TypeDefinition::child_type_init_body: the slot assignments
\* of the installer, one per virtual method; None for a type without virtual
\* methods or without a name
child_type_init_tokens_always(def) ==
  Some([i \in 1..def.virtual_methods |-> i])

child_type_init_tokens(def) ==
  IF def.virtual_methods = 0 THEN None
  ELSE IF def.name = None THEN None
  ELSE Some([i \in 1..def.virtual_methods |-> i])

\* ClassDefinition::is_subclassable_impl: the implementation of
\* IsSubclassable for the type, around the body
is_subclassable_impl(class) ==
  IF class.inner.name = None THEN None
  ELSE LET body == child_type_init_tokens(class.inner)
       IN  IF body = None THEN None
           ELSE Some([for |-> class.inner.name[1],
                      generics |-> class.inner.generics,
                      assignments |-> body[1]])

\* ClassDefinition::wrapper
wrapper(class) ==
  IF ~class.wrapper THEN None
  ELSE IF class.inner.name = None THEN None
  ELSE Some(class.inner.name[1])

\* what to_tokens emits: the module, and the items beside it
Tokens(class) ==
  [emitted |-> TRUE,
   module |-> class.inner.module,
   wrapper |-> wrapper(class),
   public_methods |-> public_methods(class.inner, ext_trait(class)),
   is_subclassable |-> is_subclassable_impl(class)]

NoTokens ==
  [emitted |-> FALSE, module |-> <<>>, wrapper |-> None, public_methods |-> None,
   is_subclassable |-> None]

\* ClassDefinition::from_type(def, opts, crate_ident, errors)
FromType ==
  /\ cstage = "input"
  /\ cstage' = "built"
  /\ cerrors' = cerrors \o validate(cin.attrs, cin.def)
  /\ cdef' = BuildClass(cin.attrs, cin.def)
  /\ UNCHANGED <<cin, ctokens>>

\* <ClassDefinition as ToTokens>::to_tokens
ToTokens ==
  /\ cstage = "built"
  /\ cstage' = "emitted"
  /\ ctokens' = Tokens(cdef)
  /\ UNCHANGED <<cin, cerrors, cdef>>

IdleClass ==
  /\ cstage = "idle"
  /\ cin = [attrs |-> ClassAttrs(None, None, FALSE, FALSE, None),
            def |-> ClassInner(None, FALSE, 0, 0)]
  /\ cerrors = <<>>
  /\ cdef = NoClass
  /\ ctokens = NoTokens

-----------------------------------------------------------------------------
(* The generated IsSubclassable::class_init: the statements of the installer
   that runs when the class of a descendant is initialised *)

\* the call of IsSubclassableExt::parent_class_init on the class struct
ParentClassInitStmt == [kind |-> "parent_class_init", method |-> ""]

\* let class = AsMut::as_mut(class)
AsMutStmt == [kind |-> "as_mut", method |-> ""]

\* VirtualMethod::set_subclassed_trampoline: one assignment to the slot of m
SetSubclassedTrampolineStmt(m) == [kind |-> "set_subclassed_trampoline", method |-> m]

\* child_type_init_body as statements: one assignment per virtual method, in
\* the order of self.virtual_methods
child_type_init_stmts(virtual_methods) ==
  [i \in 1..Len(virtual_methods) |-> SetSubclassedTrampolineStmt(virtual_methods[i])]

\* the body of class_init with the assignments before the parent's call
class_init_body_first(virtual_methods) ==
  child_type_init_stmts(virtual_methods) \o <<ParentClassInitStmt, AsMutStmt>>

\* the body of the generated class_init
class_init(virtual_methods) ==
  <<ParentClassInitStmt, AsMutStmt>> \o child_type_init_stmts(virtual_methods)

\* what the class initialisation of the ancestors of t leaves in a slot: the
\* default trampoline of the declaring type or the trampoline of the parent
AncestorSlot(t) ==
  IF parent_class(t) = 0 THEN DefaultTrampoline
  ELSE SubclassedTrampoline(parent_class(t))

\* one run of the installer: for the class of descendant t, of a type with
\* these virtual methods; installs[m] is what the class initialisation of the
\* parent writes to the slot of m (None: it leaves the slot alone)
InstallerRun(t, virtual_methods, installs) ==
  [t |-> t, virtual_methods |-> virtual_methods, installs |-> installs,
   stmts |-> class_init(virtual_methods)]

NoInstallerRun ==
  [t |-> 1, virtual_methods |-> <<>>, installs |-> [m \in VMethods |-> None],
   stmts |-> <<>>]

\* the statement the installer executes next
NextStmt == icfg.stmts[ipc + 1]

\* parent_class_init::<T>(class): the class initialisation of the parent runs
\* on the class struct
ParentClassInit ==
  /\ ipc < Len(icfg.stmts)
  /\ NextStmt.kind = "parent_class_init"
  /\ iclass' = [m \in VMethods |->
                  IF icfg.installs[m] = None THEN iclass[m]
                  ELSE icfg.installs[m][1]]
  /\ iparent_done' = TRUE
  /\ ipc' = ipc + 1
  /\ UNCHANGED icfg

\* let class = as_mut(class): the class struct is the same
AsMut ==
  /\ ipc < Len(icfg.stmts)
  /\ NextStmt.kind = "as_mut"
  /\ ipc' = ipc + 1
  /\ UNCHANGED <<icfg, iclass, iparent_done>>

\* one assignment of the body: the slot of the method gets the trampoline of
\* the descendant
SetSubclassedTrampoline ==
  /\ ipc < Len(icfg.stmts)
  /\ NextStmt.kind = "set_subclassed_trampoline"
  /\ iclass' = [iclass EXCEPT ![NextStmt.method] = SubclassedTrampoline(icfg.t)]
  /\ ipc' = ipc + 1
  /\ UNCHANGED <<icfg, iparent_done>>

IdleInstaller ==
  /\ icfg = NoInstallerRun
  /\ ipc = 0
  /\ iclass = [m \in VMethods |-> UnsetSlot]
  /\ iparent_done = FALSE

-----------------------------------------------------------------------------
(* util::Errors: the collector of the diagnostics *)

\* the most errors pushed to one collector
MaxErrors == 3

\* the spans and the messages that the pushes are called with
Spans == {0, 1}
Messages == {"a", "b"}

\* syn::Error::new(span, message)
syn_error_new(span, message) == [span |-> span, message |-> message]

\* syn::Error::new_spanned(tokens, message): the span is that of the tokens
syn_error_new_spanned(tokens, message) ==
  [span |-> tokens.span, message |-> message]

\* error.into(): the darling::Error made from a syn::Error keeps its message
\* and its span
darling_from_syn(error) ==
  [kind |-> "Custom", message |-> error.message, span |-> Some(error.span)]

\* the errors that push_darling is called with directly
DarlingErrors ==
  {[kind |-> "Custom", message |-> m, span |-> s] :
     m \in Messages, s \in {None} \cup {Some(sp) : sp \in Spans}}

\* Errors::push_darling: self.errors.borrow_mut().push(error)
push_darling_front(errors, error) == <<error>> \o errors

push_darling(errors, error) == Append(errors, error)

\* Errors::push_syn
push_syn(errors, error) == push_darling(errors, darling_from_syn(error))

\* Errors::push
push(errors, span, message) == push_syn(errors, syn_error_new(span, message))

\* Errors::push_spanned
push_spanned(errors, tokens, message) ==
  push_syn(errors, syn_error_new_spanned(tokens, message))

\* darling::Error::multiple(errors).write_errors(): one compile_error! per
\* error, in the order of the vector
write_errors(errors) ==
  [i \in 1..Len(errors) |->
     [compile_error |-> errors[i].message, span |-> errors[i].span]]

\* Errors::into_compile_errors
into_compile_errors(errors) ==
  IF Len(errors) # 0 THEN Some(write_errors(errors)) ELSE None

NoErrorsCall == [op |-> "none", error |-> <<>>]

ErrorsCall(op, error) == [op |-> op, error |-> Some(error)]

Push(span, message) ==
  /\ estage = "open"
  /\ Len(ecol) < MaxErrors
  /\ ecol' = push(ecol, span, message)
  /\ ecall' = ErrorsCall("push", darling_from_syn(syn_error_new(span, message)))
  /\ UNCHANGED <<estage, eout>>

PushSpanned(tokens, message) ==
  /\ estage = "open"
  /\ Len(ecol) < MaxErrors
  /\ ecol' = push_spanned(ecol, tokens, message)
  /\ ecall' = ErrorsCall("push_spanned",
                 darling_from_syn(syn_error_new_spanned(tokens, message)))
  /\ UNCHANGED <<estage, eout>>

PushSyn(error) ==
  /\ estage = "open"
  /\ Len(ecol) < MaxErrors
  /\ ecol' = push_syn(ecol, error)
  /\ ecall' = ErrorsCall("push_syn", darling_from_syn(error))
  /\ UNCHANGED <<estage, eout>>

PushDarling(error) ==
  /\ estage = "open"
  /\ Len(ecol) < MaxErrors
  /\ ecol' = push_darling(ecol, error)
  /\ ecall' = ErrorsCall("push_darling", error)
  /\ UNCHANGED <<estage, eout>>

\* into_compile_errors(self): takes the vector and consumes the collector
IntoCompileErrors ==
  /\ estage = "open"
  /\ estage' = "consumed"
  /\ eout' = into_compile_errors(ecol)
  /\ ecol' = <<>>
  /\ ecall' = [op |-> "into_compile_errors", error |-> <<>>]

IdleErrors ==
  /\ estage = "idle"
  /\ ecol = <<>>
  /\ ecall = NoErrorsCall
  /\ eout = None

IdleLazy ==
  /\ thr = [t \in Threads |-> IdleThread]
  /\ lazy_owner = [f \in TableNames |-> 0]
  /\ init_runs = [f \in TableNames |-> 0]

IdleParse ==
  /\ pstage = "idle"
  /\ pinput = [items |-> <<>>, name |-> None, base |-> "Class", hasBody |-> FALSE,
               vis |-> Inherited]
  /\ pmodule = <<>>
  /\ pdef = NewDef(None)

-----------------------------------------------------------------------------
(* The specification of parse: any module body, then parse *)

\* the arguments parse is called with: a module without a body, or with a
\* body of at most MaxItems items
ParseInputVis(its, n, b, hasBody, vis) ==
  [items |-> its, name |-> n, base |-> b, hasBody |-> hasBody, vis |-> vis]

\* a module declared without a visibility
ParseInput(its, n, b, hasBody) == ParseInputVis(its, n, b, hasBody, Inherited)

InitParse ==
  /\ IdleInstaller
  /\ IdleErrors
  /\ pstage = "input"
  /\ \E n \in {None} \cup {Some(x) : x \in Names} : \E b \in TypeBase :
       \/ pinput = ParseInput(<<>>, n, b, FALSE)
       \/ \E k \in 0..MaxItems : \E its \in [1..k -> Items] :
            pinput = ParseInput(its, n, b, TRUE)
  /\ pmodule = pinput.items
  /\ pdef = NewDef(pinput.name)
  /\ IdleTable
  /\ IdleLazy
  /\ IdleVtable
  /\ IdleClass

Parse ==
  /\ pstage = "input"
  /\ pstage' = "parsed"
  /\ LET r == ParseResult(pinput)
     IN  pdef' = r.def /\ pmodule' = r.items
  /\ UNCHANGED pinput
  /\ UNCHANGED <<varsTable, varsLazy, varsVtable, varsClass, varsErrors, varsInstaller>>

NextParse == Parse

SpecParse == InitParse /\ [][NextParse]_vars

-----------------------------------------------------------------------------
(* The specification of parse on modules of structs and marker blocks *)

\* the trait paths of the blocks: the markers bare and by a full path, a path
\* that is matched by no spelling, and another trait
MarkerPaths == {"Send", "Sync", "std::marker::Send", "::core::marker::Sync",
                "marker::Send", "Other"}

MarkerItems ==
  {ItemStruct(n, FALSE) : n \in Names}
    \cup {ItemImpl(Some(n), FALSE, p) : n \in Names, p \in MarkerPaths}
    \cup {ItemNegImpl(Some(n), p) : n \in Names, p \in {"Send", "Sync"}}

InitMarkers ==
  /\ IdleInstaller
  /\ IdleErrors
  /\ pstage = "input"
  /\ \E n \in {None} \cup {Some(x) : x \in Names} : \E b \in TypeBase :
       \E k \in 0..MaxItems : \E its \in [1..k -> MarkerItems] :
         pinput = ParseInput(its, n, b, TRUE)
  /\ pmodule = pinput.items
  /\ pdef = NewDef(pinput.name)
  /\ IdleTable
  /\ IdleLazy
  /\ IdleVtable
  /\ IdleClass

SpecMarkers == InitMarkers /\ [][NextParse]_vars

-----------------------------------------------------------------------------
(* The specification of parse on modules of structs of any visibility *)

\* structs of one name in every visibility, a public struct of another name,
\* and an item that is no struct
VisItems ==
  {ItemStructVis("Foo", FALSE, v) : v \in Visibilities}
    \cup {ItemStructVis("Bar", FALSE, Public), ItemOther}

\* the visibilities the module itself is declared with
ModuleVisibilities ==
  {Inherited, Public, Restricted(<<"self">>), Restricted(<<"super">>)}

InitVis ==
  /\ IdleInstaller
  /\ IdleErrors
  /\ pstage = "input"
  /\ \E n \in {None, Some("Foo")} : \E mv \in ModuleVisibilities :
       \E k \in 0..MaxItems : \E its \in [1..k -> VisItems] :
         pinput = ParseInputVis(its, n, "Class", TRUE, mv)
  /\ pmodule = pinput.items
  /\ pdef = NewDef(pinput.name)
  /\ IdleTable
  /\ IdleLazy
  /\ IdleVtable
  /\ IdleClass

SpecVis == InitVis /\ [][NextParse]_vars

-----------------------------------------------------------------------------
(* The specification of parse on modules of structs of any shape *)

\* the fields that the user declares, in order
UserFields == {<<>>, <<"a">>, <<"a", "b">>, <<"b", "a">>}

\* a struct Foo with named fields, with tuple fields or without fields, a
\* struct Bar with a named field, and an item that is neither
FieldItems ==
  {ItemStructOf("Foo", FALSE, Inherited, "", Fields(sh, l), 0) :
     sh \in {"Named", "Unnamed"}, l \in UserFields}
    \cup {ItemStruct("Foo", FALSE),
          ItemStructOf("Bar", FALSE, Inherited, "", Fields("Named", <<"a">>), 0),
          ItemOther}

InitFields ==
  /\ IdleInstaller
  /\ IdleErrors
  /\ IdleTable
  /\ IdleLazy
  /\ IdleVtable
  /\ IdleClass
  /\ pstage = "input"
  /\ \E n \in {None, Some("Foo")} : \E b \in TypeBase :
       \E k \in 0..MaxItems : \E its \in [1..k -> FieldItems] :
         pinput = ParseInput(its, n, b, TRUE)
  /\ pmodule = pinput.items
  /\ pdef = NewDef(pinput.name)

SpecFields == InitFields /\ [][NextParse]_vars

-----------------------------------------------------------------------------
(* The specification of parse on modules of structs and blocks with generics
   and members *)

\* structs Foo with or without a generic parameter and a property, a struct
\* Bar, blocks of Foo with or without a generic parameter and with one kind of
\* member or none, a block of Bar with every kind of member, and an item
\* that is neither
MemberItems ==
  {ItemStructOf("Foo", FALSE, Inherited, g, UnitFields, n) :
     g \in {"", "<T>"}, n \in 0..1}
    \cup {ItemImplOf(Some("Foo"), FALSE, NoTrait, g, c[1], c[2], c[3]) :
            g \in {"", "<U>"},
            c \in {<<0, 0, 0>>, <<1, 0, 0>>, <<0, 1, 0>>, <<0, 0, 1>>}}
    \cup {ItemStruct("Bar", FALSE),
          ItemImplOf(Some("Bar"), FALSE, NoTrait, "<U>", 1, 1, 1),
          ItemOther}

InitMembers ==
  /\ IdleInstaller
  /\ IdleErrors
  /\ IdleTable
  /\ IdleLazy
  /\ IdleVtable
  /\ IdleClass
  /\ pstage = "input"
  /\ \E n \in {None, Some("Foo")} : \E b \in TypeBase :
       \E k \in 0..MaxItems : \E its \in [1..k -> MemberItems] :
         pinput = ParseInput(its, n, b, TRUE)
  /\ pmodule = pinput.items
  /\ pdef = NewDef(pinput.name)

SpecMembers == InitMembers /\ [][NextParse]_vars

-----------------------------------------------------------------------------
(* The specification of parse on modules with blocks of wrapper methods *)

\* the most typed arguments of a wrapper method
MaxArgs == 2

\* the typed arguments of a method: each pattern an identifier or not
ArgLists == UNION {[1..k -> {"ident", "pat"}] : k \in 0..MaxArgs}

WrapperSignatures ==
  {Signature("new", r, ins, o) : r \in BOOLEAN, ins \in ArgLists, o \in BOOLEAN}

\* methods without #[constructor], with it, and with it followed by tokens;
\* with an empty body and with a body of the user
WrapperMethods ==
  {ImplItemMethod(sig, c, b) :
     sig \in WrapperSignatures, c \in {None, Some(FALSE), Some(TRUE)},
     b \in {"empty", "user"}}

\* what may follow the first method in its block
MoreImplItems ==
  {<<>>,
   <<ImplItemConst,
     ImplItemMethod(Signature("with_name", FALSE, <<"ident">>, TRUE),
                    Some(FALSE), "empty")>>,
   <<ImplItemMethod(Signature("from_pair", TRUE, <<"pat">>, FALSE),
                    Some(FALSE), "user")>>}

\* a second block of wrapper methods
SecondWrapperBlock ==
  ItemImplItems(Some("Foo"), NoTrait, TRUE,
    <<ImplItemMethod(Signature("other", FALSE, <<"pat", "pat">>, FALSE),
                     Some(FALSE), "empty")>>)

InitWrapper ==
  /\ IdleInstaller
  /\ IdleErrors
  /\ IdleTable
  /\ IdleLazy
  /\ IdleVtable
  /\ IdleClass
  /\ pstage = "input"
  /\ \E b \in TypeBase : \E tr \in {NoTrait, "Other"} : \E wt \in BOOLEAN :
       \E m \in WrapperMethods : \E more \in MoreImplItems :
         \E tail \in {<<>>, <<SecondWrapperBlock>>} :
           pinput = ParseInput(
                      <<ItemStruct("Foo", FALSE),
                        ItemImplItems(Some("Foo"), tr, wt, <<m>> \o more)>>
                        \o tail,
                      None, b, TRUE)
  /\ pmodule = pinput.items
  /\ pdef = NewDef(pinput.name)

SpecWrapper == InitWrapper /\ [][NextParse]_vars

-----------------------------------------------------------------------------
(* The specification of the generated tables: any type, then the first call
   of each generated table function *)

InitTable ==
  /\ IdleInstaller
  /\ IdleErrors
  /\ IdleParse
  /\ IdleLazy
  /\ IdleVtable
  /\ IdleClass
  /\ \E hasName \in BOOLEAN : \E base \in TypeBase :
     \E n \in 0..MaxProps : \E properties \in [1..n -> AccessModes] :
     \E signals \in 0..MaxSignals :
     \E user \in [{"properties", "signals"} -> UserMethods] :
     \E custom \in [{"properties", "signals"} -> CustomStmts] :
       tcfg = TypeConfig(hasName, base, properties, signals, user, custom)
  /\ tables = [f \in TableNames |-> NoTable]
  /\ base_index = None
  /\ dispatch = NoDispatch

NextTable ==
  \/ (CallProperties /\ UNCHANGED <<varsParse, varsLazy, varsVtable, varsClass, varsErrors, varsInstaller>>)
  \/ (CallSignals /\ UNCHANGED <<varsParse, varsLazy, varsVtable, varsClass, varsErrors, varsInstaller>>)
  \/ (CallDerivedProperties /\ UNCHANGED <<varsParse, varsLazy, varsVtable, varsClass, varsErrors, varsInstaller>>)

SpecTable == InitTable /\ [][NextTable]_vars

-----------------------------------------------------------------------------
(* The specification of the generated dispatch: any list of declared
   properties, then calls of set_property and property with any id *)

InitDispatch ==
  /\ IdleInstaller
  /\ IdleErrors
  /\ IdleParse
  /\ IdleLazy
  /\ IdleVtable
  /\ IdleClass
  /\ \E hasName \in BOOLEAN :
     \E n \in 0..MaxProps : \E properties \in [1..n -> AccessModes] :
       tcfg = TypeConfig(hasName, "Class", properties, 0,
                         NoUserMethods, NoCustomStmts)
  /\ tables = [f \in TableNames |-> NoTable]
  /\ base_index = None
  /\ dispatch = NoDispatch

NextDispatch ==
  \/ \E id \in DispatchIds : SetProperty(id) /\ UNCHANGED <<varsParse, varsLazy, varsVtable, varsClass, varsErrors, varsInstaller>>
  \/ \E id \in DispatchIds : GetProperty(id) /\ UNCHANGED <<varsParse, varsLazy, varsVtable, varsClass, varsErrors, varsInstaller>>
  \/ \E id \in DispatchIds : DerivedSetProperty(id) /\ UNCHANGED <<varsParse, varsLazy, varsVtable, varsClass, varsErrors, varsInstaller>>
  \/ \E id \in DispatchIds : DerivedGetProperty(id) /\ UNCHANGED <<varsParse, varsLazy, varsVtable, varsClass, varsErrors, varsInstaller>>

SpecDispatch == InitDispatch /\ [][NextDispatch]_vars

-----------------------------------------------------------------------------
(* The specification of the once-only tables: threads call the functions *)

\* the types whose tables the threads race for: two declared properties and
\* signals, with and without entries of the user's method and of custom
\* statements
InitLazy ==
  /\ IdleInstaller
  /\ IdleErrors
  /\ IdleParse
  /\ IdleVtable
  /\ IdleClass
  /\ IdleLazy
  /\ \E b \in TypeBase : \E u \in BOOLEAN : \E c \in BOOLEAN :
       tcfg = TypeConfig(TRUE, b,
                [i \in 1..MaxProps |-> "readwrite"], MaxSignals,
                [f \in {"properties", "signals"} |->
                   [has_method |-> u, len |-> IF u THEN MaxExtra ELSE 0]],
                [f \in {"properties", "signals"} |->
                   IF c THEN Some(MaxExtra) ELSE None])
  /\ tables = [f \in TableNames |-> NoTable]
  /\ base_index = None
  /\ dispatch = NoDispatch

NextLazy ==
  \/ \E t \in Threads : \E f \in TableNames :
       CallTable(t, f) /\ UNCHANGED <<varsParse, varsVtable, varsClass, varsErrors, varsInstaller>>
  \/ \E t \in Threads : LazyStartInit(t) /\ UNCHANGED <<varsParse, varsVtable, varsClass, varsErrors, varsInstaller>>
  \/ \E t \in Threads : InitStep(t) /\ UNCHANGED <<varsParse, varsVtable, varsClass, varsErrors, varsInstaller>>
  \/ \E t \in Threads : LazyPublish(t) /\ UNCHANGED <<varsParse, varsVtable, varsClass, varsErrors, varsInstaller>>
  \/ \E t \in Threads : LazyGet(t) /\ UNCHANGED <<varsParse, varsVtable, varsClass, varsErrors, varsInstaller>>
  \/ \E t \in Threads : ReturnTable(t) /\ UNCHANGED <<varsParse, varsVtable, varsClass, varsErrors, varsInstaller>>

SpecLazy == InitLazy /\ [][NextLazy]_vars

-----------------------------------------------------------------------------
(* The specification of the vtables: class initialisation, then calls *)

InitVtable ==
  /\ IdleInstaller
  /\ IdleErrors
  /\ IdleParse
  /\ IdleTable
  /\ IdleLazy
  /\ IdleClass
  /\ \E has_default \in [VMethods -> BOOLEAN] :
       \E defines \in [Subclasses -> [VMethods -> BOOLEAN]] :
         vcfg = VtableConfig(has_default, defines)
  /\ slots = [t \in Types |-> [m \in VMethods |-> UnsetSlot]]
  /\ class_inited = {}
  /\ instances = {}
  /\ vcall = NoCall

NextVtable ==
  \/ DeclaringClassInit /\ UNCHANGED <<varsParse, varsTable, varsLazy, varsClass, varsErrors, varsInstaller>>
  \/ \E t \in Subclasses :
       SubclassClassInit(t) /\ UNCHANGED <<varsParse, varsTable, varsLazy, varsClass, varsErrors, varsInstaller>>
  \/ \E t \in Types :
       NewInstance(t) /\ UNCHANGED <<varsParse, varsTable, varsLazy, varsClass, varsErrors, varsInstaller>>
  \/ \E t \in Types : \E m \in VMethods :
       CallMethod(t, m) /\ UNCHANGED <<varsParse, varsTable, varsLazy, varsClass, varsErrors, varsInstaller>>
  \/ ChainToParent /\ UNCHANGED <<varsParse, varsTable, varsLazy, varsClass, varsErrors, varsInstaller>>

SpecVtable == InitVtable /\ [][NextVtable]_vars


-----------------------------------------------------------------------------
(* The specification of a class: any options and type, from_type, to_tokens *)

ClassNames == {None, Some("Foo"), Some("Bar")}

\* an error that the extraction of a member pushed before from_type
MemberError == "member error"

\* the signals of the type: none, one without and one with a default handler
ClassSignals == {<<>>, <<FALSE>>, <<TRUE>>}

InitClass ==
  /\ IdleInstaller
  /\ IdleErrors
  /\ IdleParse
  /\ IdleTable
  /\ IdleLazy
  /\ IdleVtable
  /\ cstage = "input"
  /\ \E an \in ClassNames : \E et \in {None, Some("FooTraits")} :
       \E ab \in BOOLEAN : \E fi \in BOOLEAN :
         \E wr \in {None, Some(TRUE), Some(FALSE)} :
         \E dn \in ClassNames : \E ge \in BOOLEAN :
           \E pm \in 0..MaxMethods : \E vm \in 0..MaxMethods :
             \E sg \in ClassSignals :
               \* parse leaves generics None only when it selected no
               \* implementation block, and then the type has no members
               /\ ~ge => (pm = 0 /\ vm = 0 /\ sg = <<>>)
               /\ cin = [attrs |-> ClassAttrs(an, et, ab, fi, wr),
                         def |-> ClassInnerOf(dn, ge, pm, vm, sg,
                                              <<>>, None, None)]
  /\ cerrors \in {<<>>, <<MemberError>>}
  /\ cdef = NoClass
  /\ ctokens = NoTokens

NextClass ==
  \/ FromType /\ UNCHANGED <<varsParse, varsTable, varsLazy, varsVtable, varsErrors, varsInstaller>>
  \/ ToTokens /\ UNCHANGED <<varsParse, varsTable, varsLazy, varsVtable, varsErrors, varsInstaller>>

SpecClass == InitClass /\ [][NextClass]_vars

-----------------------------------------------------------------------------
(* The specification of a class from a parsed module: parse has run on any
   module, then from_type, then to_tokens *)

\* structs Foo with or without a property, a struct Bar, blocks of Foo
\* without members, with a signal or with a virtual method, a marker block of
\* Foo, and an item that is neither
ParsedClassItems ==
  {ItemStructOf("Foo", FALSE, Inherited, "", UnitFields, n) : n \in 0..1}
    \cup {ItemImplOf(Some("Foo"), FALSE, NoTrait, "", c[1], 0, c[2]) :
            c \in {<<0, 0>>, <<1, 0>>, <<0, 1>>}}
    \cup {ItemStruct("Bar", FALSE), ItemImpl(Some("Foo"), FALSE, "Send"),
          ItemOther}

\* the TypeDefinition that from_type takes: what parse returned, with the
\* module body as parse left it
ParsedInner(r) ==
  ClassInnerOf(r.def.name, r.def.generics # None, r.def.public_methods,
               r.def.virtual_methods, [i \in 1..r.def.signals |-> FALSE],
               r.items, r.def.properties_item_index, r.def.methods_item_index)

InitClassItems ==
  /\ IdleInstaller
  /\ IdleErrors
  /\ IdleTable
  /\ IdleLazy
  /\ IdleVtable
  /\ pstage = "parsed"
  /\ \E n \in {None, Some("Foo")} :
       \E k \in 0..MaxItems : \E its \in [1..k -> ParsedClassItems] :
         pinput = ParseInput(its, n, "Class", TRUE)
  /\ pmodule = ParseResult(pinput).items
  /\ pdef = ParseResult(pinput).def
  /\ cstage = "input"
  /\ \E an \in {None, Some("Foo")} :
       cin = [attrs |-> ClassAttrs(an, None, FALSE, FALSE, None),
              def |-> ParsedInner(ParseResult(pinput))]
  /\ cerrors = pdef.errors
  /\ cdef = NoClass
  /\ ctokens = NoTokens

SpecClassItems == InitClassItems /\ [][NextClass]_vars

-----------------------------------------------------------------------------
(* The specification of the collector: pushes, then into_compile_errors *)

InitErrors ==
  /\ IdleInstaller
  /\ IdleParse
  /\ IdleTable
  /\ IdleLazy
  /\ IdleVtable
  /\ IdleClass
  /\ estage = "open"
  /\ ecol = <<>>
  /\ ecall = NoErrorsCall
  /\ eout = None

NextErrors ==
  \/ \E sp \in Spans : \E m \in Messages :
       Push(sp, m) /\ UNCHANGED <<varsParse, varsTable, varsLazy, varsVtable, varsClass, varsInstaller>>
  \/ \E sp \in Spans : \E m \in Messages :
       PushSpanned([span |-> sp], m) /\ UNCHANGED <<varsParse, varsTable, varsLazy, varsVtable, varsClass, varsInstaller>>
  \/ \E sp \in Spans : \E m \in Messages :
       PushSyn(syn_error_new(sp, m)) /\ UNCHANGED <<varsParse, varsTable, varsLazy, varsVtable, varsClass, varsInstaller>>
  \/ \E e \in DarlingErrors :
       PushDarling(e) /\ UNCHANGED <<varsParse, varsTable, varsLazy, varsVtable, varsClass, varsInstaller>>
  \/ IntoCompileErrors /\ UNCHANGED <<varsParse, varsTable, varsLazy, varsVtable, varsClass, varsInstaller>>

SpecErrors == InitErrors /\ [][NextErrors]_vars

-----------------------------------------------------------------------------
(* The specification of the installer: any descendant, any order of the
   virtual methods and anything the class initialisation of the parent
   writes, then the statements of class_init one by one *)

\* self.virtual_methods: the virtual methods in the order of their declaration
VirtualMethodLists ==
  {<<m>> : m \in VMethods}
    \cup {<<m, n>> : <<m, n>> \in {p \in VMethods \X VMethods : p[1] # p[2]}}

InitInstaller ==
  /\ IdleParse
  /\ IdleTable
  /\ IdleLazy
  /\ IdleVtable
  /\ IdleClass
  /\ IdleErrors
  /\ \E t \in Subclasses : \E virtual_methods \in VirtualMethodLists :
       \E installs \in [VMethods ->
                          {None, Some(DefaultTrampoline), Some(AncestorSlot(t))}] :
         /\ icfg = InstallerRun(t, virtual_methods, installs)
         /\ iclass = [m \in VMethods |-> AncestorSlot(t)]
  /\ ipc = 0
  /\ iparent_done = FALSE

NextInstaller ==
  \/ ParentClassInit /\ UNCHANGED <<varsParse, varsTable, varsLazy, varsVtable, varsClass, varsErrors>>
  \/ AsMut /\ UNCHANGED <<varsParse, varsTable, varsLazy, varsVtable, varsClass, varsErrors>>
  \/ SetSubclassedTrampoline /\ UNCHANGED <<varsParse, varsTable, varsLazy, varsVtable, varsClass, varsErrors>>

SpecInstaller == InitInstaller /\ [][NextInstaller]_vars

-----------------------------------------------------------------------------
(* Claims about the selection of the struct *)

\* the positions (0-based) of the structs of a module body that satisfy P
FirstIndex(S) == CHOOSE i \in S : \A j \in S : i <= j

StructsNamed(items, name) ==
  {i \in 0..(Len(items) - 1) :
     items[i + 1].kind = "Struct" /\ items[i + 1].ident = Some(name)}

StructsTagged(items) ==
  {i \in 0..(Len(items) - 1) :
     items[i + 1].kind = "Struct" /\ items[i + 1].tag}

\* C9: given an explicit name, parse selects the first struct in declaration
\* order whose identifier is that name; when no struct has it, no struct is
\* selected, no error is reported and the name stays the explicit one.
C9_ExplicitNameSelectsFirstMatchingStruct ==
  (pstage = "parsed" /\ pinput.hasBody /\ pinput.name # None) =>
    LET S == StructsNamed(pinput.items, pinput.name[1])
    IN  /\ S # {} => pdef.properties_item_index = Some(FirstIndex(S))
        /\ S = {} => /\ pdef.properties_item_index = None
                     /\ pdef.errors = <<>>
        /\ pdef.name = pinput.name

\* C9's case: two structs carry the explicit name, after another struct, and
\* the first of the two is the one selected
C9_Witness ==
  /\ pstage = "parsed"
  /\ pinput.name = Some("Foo")
  /\ StructsNamed(pinput.items, "Foo") = {1, 2}
  /\ pinput.items[1].kind = "Struct"
  /\ pdef.properties_item_index = Some(1)

\* C10: without an explicit name, when some struct carries #[properties], the
\* first tagged struct is selected and names the type, however many untagged
\* structs are declared before it.
C10_TaggedStructSelectedAndNamesType ==
  (pstage = "parsed" /\ pinput.hasBody /\ pinput.name = None
     /\ StructsTagged(pinput.items) # {}) =>
    LET t == FirstIndex(StructsTagged(pinput.items))
    IN  /\ pdef.properties_item_index = Some(t)
        /\ pdef.name = pinput.items[t + 1].ident

\* C10's case: two untagged structs of another name precede the tagged one
C10_Witness ==
  /\ pstage = "parsed"
  /\ pinput.name = None
  /\ Len(pinput.items) = 3
  /\ pinput.items[1] = ItemStruct("Bar", FALSE)
  /\ pinput.items[2] = ItemStruct("Bar", FALSE)
  /\ pinput.items[3] = ItemStruct("Foo", TRUE)
  /\ pdef.properties_item_index = Some(2)
  /\ pdef.name = Some("Foo")

\* the positions (0-based) of all the structs of a module body
Structs(items) ==
  {i \in 0..(Len(items) - 1) : items[i + 1].kind = "Struct"}

\* C11: without an explicit name, when no struct carries #[properties], the
\* first struct in declaration order is selected and its identifier is the
\* name of the type; and whenever the module holds exactly one struct, the
\* type is named after it.
C11_FirstStructSelectedWhenNoneTagged ==
  (pstage = "parsed" /\ pinput.hasBody /\ pinput.name = None) =>
    LET S == Structs(pinput.items)
    IN  /\ (S # {} /\ StructsTagged(pinput.items) = {}) =>
              /\ pdef.properties_item_index = Some(FirstIndex(S))
              /\ pdef.name = pinput.items[FirstIndex(S) + 1].ident
        /\ Cardinality(S) = 1 =>
              pdef.name = pinput.items[FirstIndex(S) + 1].ident

\* C11's case: two untagged structs of different names after another item,
\* and the first of the two is selected and names the type
C11_Witness ==
  /\ pstage = "parsed"
  /\ pinput.name = None
  /\ Len(pinput.items) = 3
  /\ pinput.items[1].kind # "Struct"
  /\ pinput.items[2] = ItemStruct("Bar", FALSE)
  /\ pinput.items[3] = ItemStruct("Foo", FALSE)
  /\ pdef.properties_item_index = Some(1)
  /\ pdef.name = Some("Bar")

-----------------------------------------------------------------------------
(* Claims about the selection of the implementation block *)

\* the positions (0-based) of the inherent blocks whose self type is `name`
ImplsNamed(items, name) ==
  {i \in 0..(Len(items) - 1) :
     /\ items[i + 1].kind = "Impl"
     /\ items[i + 1].trait_ = NoTrait
     /\ items[i + 1].ident = Some(name)}

\* the positions (0-based) of the inherent blocks
InherentImpls(items) ==
  {i \in 0..(Len(items) - 1) :
     items[i + 1].kind = "Impl" /\ items[i + 1].trait_ = NoTrait}

Tagged(items, S) == {i \in S : items[i + 1].tag}

\* the name is known before the block is looked for: it is given, or a struct
\* is selected and names the type
NameKnown == pinput.name # None \/ pdef.properties_item_index # None

\* C12, as stated: once the name is known, the block selected is an inherent
\* block whose self type is the name; among several such blocks the first one
\* tagged #[methods] is selected even when an untagged one is declared
\* earlier, and with no tagged one the first of them is selected.
C12_TaggedBlockPreferredForKnownName ==
  (pstage = "parsed" /\ pinput.hasBody /\ NameKnown) =>
    LET M == ImplsNamed(pinput.items, pdef.name[1])
        T == Tagged(pinput.items, M)
    IN  /\ pdef.methods_item_index # None => pdef.methods_item_index[1] \in M
        /\ T # {} => pdef.methods_item_index = Some(FirstIndex(T))
        /\ (T = {} /\ M # {}) => pdef.methods_item_index = Some(FirstIndex(M))

\* C13: without an explicit name and without a struct, the block selected is
\* the first inherent block tagged #[methods] when there is one and otherwise
\* the first inherent block; the name of the type is the self-type identifier
\* of the selected block; and with no inherent block nothing is selected and
\* no name is known.
C13_BlockSelectedAndNamesTypeWithoutStruct ==
  (pstage = "parsed" /\ pinput.hasBody /\ pinput.name = None
     /\ Structs(pinput.items) = {}) =>
    LET I == InherentImpls(pinput.items)
        T == Tagged(pinput.items, I)
    IN  /\ T # {} => pdef.methods_item_index = Some(FirstIndex(T))
        /\ (T = {} /\ I # {}) => pdef.methods_item_index = Some(FirstIndex(I))
        /\ I = {} => (pdef.methods_item_index = None /\ pdef.name = None)
        /\ pdef.methods_item_index # None =>
              pdef.name = type_ident(pinput.items[pdef.methods_item_index[1] + 1])

\* C13's case: an untagged inherent block of one self type precedes a tagged
\* one of another, and the tagged one is selected and names the type
C13_Witness ==
  /\ pstage = "parsed"
  /\ pinput.name = None
  /\ Len(pinput.items) = 3
  /\ pinput.items[1] = ItemImpl(Some("Bar"), FALSE, NoTrait)
  /\ pinput.items[2] = ItemImpl(Some("Bar"), FALSE, "Send")
  /\ pinput.items[3] = ItemImpl(Some("Foo"), TRUE, NoTrait)
  /\ pdef.methods_item_index = Some(2)
  /\ pdef.name = Some("Foo")

-----------------------------------------------------------------------------
(* Claims about the thread-safety markers *)

\* the spellings of a marker trait
Spellings(marker) ==
  IF marker = "Send"
  THEN {"Send", "std::marker::Send", "::std::marker::Send",
        "core::marker::Send", "::core::marker::Send"}
  ELSE {"Sync", "std::marker::Sync", "::std::marker::Sync",
        "core::marker::Sync", "::core::marker::Sync"}

\* the module holds a block that implements the marker for the struct `name`
ImplementsMarker(items, name, marker) ==
  \E i \in 1..Len(items) :
    /\ items[i].kind = "Impl"
    /\ items[i].ident = name
    /\ ~items[i].bang
    /\ items[i].trait_ \in Spellings(marker)

\* C14, as stated: after parse, concurrency is SendSync if and only if the
\* module holds both a Send and a Sync marker implementation for the struct of
\* the type; with one of the two, or none, it is None.
C14_SendSyncIffBothMarkersImplemented ==
  (pstage = "parsed" /\ pdef.properties_item_index # None) =>
    /\ pdef.concurrency \in {"None", "SendSync"}
    /\ pdef.concurrency = "SendSync"
         <=> /\ ImplementsMarker(pinput.items, pdef.name, "Send")
             /\ ImplementsMarker(pinput.items, pdef.name, "Sync")

-----------------------------------------------------------------------------
(* Claims about the visibility of the type *)

\* a restricted visibility whose path begins with `super`
SuperRelative(v) ==
  v.kind = "Restricted" /\ v.path # <<>> /\ v.path[1] = "super"

\* no visibility, or visibility restricted to `self`
DeclaredPrivate(v) ==
  v.kind = "Inherited" \/ v = Restricted(<<"self">>)

\* the selected struct as declared, and as parse leaves it
DeclaredStruct == pinput.items[pdef.properties_item_index[1] + 1]
RewrittenStruct == pmodule[pdef.properties_item_index[1] + 1]

\* C15, as stated: for every selected struct whose declared visibility is
\* restricted to a path that begins with `super`, the external visibility of
\* the type is restricted to that path without its leading `super` segment,
\* and the internal visibility is the declared one.
C15_SuperRelativeVisibilityStripped ==
  (pstage = "parsed" /\ pdef.properties_item_index # None
     /\ SuperRelative(DeclaredStruct.vis)) =>
    /\ pdef.vis.path = Tail(DeclaredStruct.vis.path)
    /\ pdef.inner_vis = DeclaredStruct.vis

\* C16: for a selected struct declared private, parse rewrites the struct's
\* visibility to pub(super), the external visibility of the type is private
\* and the internal one is pub(super); for a selected struct of any other
\* visibility whose path does not begin with `super`, the struct is left as
\* declared and both visibilities of the type are the declared one.
C16_PrivatePromotedOthersVerbatim ==
  (pstage = "parsed" /\ pdef.properties_item_index # None) =>
    LET d == DeclaredStruct.vis
    IN  /\ DeclaredPrivate(d) =>
              /\ RewrittenStruct.vis = Restricted(<<"super">>)
              /\ pdef.vis = Inherited
              /\ pdef.inner_vis = Restricted(<<"super">>)
        /\ (~DeclaredPrivate(d) /\ ~SuperRelative(d)) =>
              /\ RewrittenStruct.vis = d
              /\ pdef.vis = d
              /\ pdef.inner_vis = d

\* C16's case: a struct declared pub(self) is selected after a public struct
\* of another name, and is pub(super) in the module after parse
C16_Witness ==
  /\ pstage = "parsed"
  /\ pinput.name = Some("Foo")
  /\ Len(pinput.items) = 2
  /\ pinput.items[1] = ItemStructVis("Bar", FALSE, Public)
  /\ pinput.items[2] = ItemStructVis("Foo", FALSE, Restricted(<<"self">>))
  /\ pdef.properties_item_index = Some(1)
  /\ pmodule[2].vis = Restricted(<<"super">>)
  /\ pmodule[1].vis = Public

-----------------------------------------------------------------------------
(* Claims about the fields of the struct *)

\* the fields of the selected struct as declared, and as parse leaves them
DeclaredFields == pinput.items[pdef.properties_item_index[1] + 1].fields
ParsedFields == pmodule[pdef.properties_item_index[1] + 1].fields

\* C23: after parse of an interface the struct that defines the type has
\* the hidden header as its first field, followed by the fields of the user
\* in their order, whatever the shape of the struct (named fields, tuple
\* fields, no fields); the struct of a class gets no field.
C23_InterfaceHeaderIsFirstField ==
  (pstage = "parsed" /\ pdef.properties_item_index # None) =>
    IF pinput.base = "Interface"
    THEN /\ ParsedFields.list # <<>>
         /\ ParsedFields.list[1] \in {HeaderNamed, HeaderUnnamed}
         /\ Tail(ParsedFields.list) = DeclaredFields.list
    ELSE ParsedFields = DeclaredFields

-----------------------------------------------------------------------------
(* Claims about the members, the name and the generics of the type *)

\* the struct that parse selected, in the module body
SelectedStruct == pmodule[pdef.properties_item_index[1] + 1]

\* C28: after parse, signals, public methods or virtual methods only with a
\* selected implementation block and with generics; properties only with a
\* selected struct; and when a struct and an implementation block are both
\* selected, the name and the generics are those of the struct
C28_MembersImplySelectionAndStructGenerics ==
  pstage = "parsed" =>
    /\ (pdef.signals > 0 \/ pdef.public_methods > 0 \/ pdef.virtual_methods > 0)
         => (pdef.methods_item_index # None /\ pdef.generics # None)
    /\ pdef.properties > 0 => pdef.properties_item_index # None
    /\ (pdef.properties_item_index # None /\ pdef.methods_item_index # None)
         => /\ pdef.name = SelectedStruct.ident
            /\ pdef.generics = Some(SelectedStruct.generics)

\* C28's case: a struct with a generic parameter and a property, and a block
\* with another generic parameter and a signal, are both selected
C28_Witness ==
  /\ pstage = "parsed"
  /\ pdef.properties_item_index # None
  /\ pdef.methods_item_index # None
  /\ SelectedStruct.generics = "<T>"
  /\ pmodule[pdef.methods_item_index[1] + 1].generics = "<U>"
  /\ pdef.properties > 0
  /\ pdef.signals > 0

-----------------------------------------------------------------------------
(* Claims about the wrapper methods *)

\* the positions (1-based) of the inherent blocks tagged #[wrapper_methods]
WrapperBlocks ==
  {k \in 1..Len(pinput.items) :
     /\ pinput.items[k].kind = "Impl"
     /\ pinput.items[k].trait_ = NoTrait
     /\ pinput.items[k].wrapper_tag}

\* the methods that are checked as constructors: block and position
Constructors ==
  {<<k, j>> \in WrapperBlocks \X (1..3) :
     /\ pinput.base = "Class"
     /\ j <= Len(pinput.items[k].items)
     /\ pinput.items[k].items[j].kind = "Method"
     /\ pinput.items[k].items[j].constructor # None}

Declared(c) == pinput.items[c[1]].items[c[2]]

\* the sum of f(x) over the x in S
SumOver(S, f(_)) ==
  Cardinality(UNION {{<<x, i>> : i \in 1..f(x)} : x \in S})

CountErrors(message) ==
  Len(SelectSeq(pdef.errors, LAMBDA e : e = message))

\* C26: the validation of a constructor reports every violation and stops
\* at none: one error if the annotation carries tokens, one if the method
\* has a self receiver, one if it has no return type, and one for each typed
\* argument whose pattern is not an identifier; a constructor with none of
\* these gets no error.
C26_EveryConstructorViolationReported ==
  pstage = "parsed" =>
    LET tokens(c) == IF Declared(c).constructor[1] THEN 1 ELSE 0
        receiver(c) == IF Declared(c).sig.receiver THEN 1 ELSE 0
        output(c) == IF Declared(c).sig.output THEN 0 ELSE 1
        args(c) == Len(SelectSeq(Declared(c).sig.inputs, LAMBDA a : a = "pat"))
        all(c) == tokens(c) + receiver(c) + output(c) + args(c)
    IN  /\ CountErrors("Unknown tokens on constructor") = SumOver(Constructors, tokens)
        /\ CountErrors("self not allowed on constructor") = SumOver(Constructors, receiver)
        /\ CountErrors("Constructor must have a return type") = SumOver(Constructors, output)
        /\ CountErrors("Constructor argument must be an ident") = SumOver(Constructors, args)
        /\ Len(pdef.errors) = SumOver(Constructors, all)

C26_Witness ==
  /\ pstage = "parsed"
  /\ \E c \in Constructors :
       /\ Declared(c).constructor[1]
       /\ Declared(c).sig.receiver
       /\ ~Declared(c).sig.output
       /\ Declared(c).sig.inputs = <<"pat", "pat">>
  /\ CountErrors("Constructor argument must be an ident") >= 2
  /\ CountErrors("Unknown tokens on constructor") = 1

\* the signatures of the methods of a block, in order
RECURSIVE SigsOf(_)
SigsOf(impl_items) ==
  IF impl_items = <<>> THEN <<>>
  ELSE (IF Head(impl_items).kind = "Method" THEN <<Head(impl_items).sig>> ELSE <<>>)
         \o SigsOf(Tail(impl_items))

RECURSIVE SigsOfBlocks(_)
SigsOfBlocks(k) ==
  IF k > Len(pinput.items) THEN <<>>
  ELSE (IF k \in WrapperBlocks THEN SigsOf(pinput.items[k].items) ELSE <<>>)
         \o SigsOfBlocks(k + 1)

\* C30: the extraction records the signature of every method of every
\* inherent block tagged #[wrapper_methods]; it replaces the body of a method
\* by the generated construction only when the type is a class, the method
\* carries #[constructor] and its body is empty; a body of the user, a method
\* without the annotation and every method of an interface are left as they
\* were.
C30_OnlyEmptyClassConstructorsFilledIn ==
  pstage = "parsed" =>
    /\ pdef.wrapper_methods = SigsOfBlocks(1)
    /\ \A k \in 1..Len(pinput.items) :
         pinput.items[k].kind = "Impl" =>
           /\ Len(pmodule[k].items) = Len(pinput.items[k].items)
           /\ \A j \in 1..Len(pinput.items[k].items) :
                LET before == pinput.items[k].items[j]
                    after == pmodule[k].items[j]
                IN  IF /\ <<k, j>> \in Constructors
                       /\ before.block = "empty"
                    THEN after.block = "generated" /\ after.sig = before.sig
                    ELSE IF <<k, j>> \in Constructors
                         THEN after.block = before.block /\ after.sig = before.sig
                         ELSE after = before

C30_Witness ==
  /\ pstage = "parsed"
  /\ pinput.base = "Class"
  /\ Len(pdef.wrapper_methods) = 3
  /\ pmodule[2].items[1].block = "user"
  /\ pinput.items[2].items[1].constructor # None
  /\ pmodule[2].items[3].block = "generated"

-----------------------------------------------------------------------------
(* Claims about the positions of the struct and of the implementation block *)

\* the item of a module body at a position of the code; an item that is none
\* of the module when the position is past its end
ItemAt(items, index) ==
  IF index + 1 \in 1..Len(items) THEN items[index + 1]
  ELSE [kind |-> "None", trait_ |-> NoTrait]

\* in this module body, properties_item_index is the position of a struct
\* and methods_item_index the position of an inherent implementation block
ValidPositions(def, items) ==
  /\ def.properties_item_index # None
       => ItemAt(items, def.properties_item_index[1]).kind = "Struct"
  /\ def.methods_item_index # None
       => /\ ItemAt(items, def.methods_item_index[1]).kind = "Impl"
          /\ ItemAt(items, def.methods_item_index[1]).trait_ = NoTrait

\* C29: the positions that parse recorded are those of a struct and of an
\* inherent implementation block; from_type keeps the positions and the items
\* of the module in place and adds its items after them, so the positions
\* are those of the same items in the module of the class and in what
\* to_tokens emits
C29_PositionsValidAfterExtraItems ==
  /\ ValidPositions(cin.def, cin.def.module)
  /\ cstage \in {"built", "emitted"} =>
       /\ cdef.inner.properties_item_index = cin.def.properties_item_index
       /\ cdef.inner.methods_item_index = cin.def.methods_item_index
       /\ Len(cdef.inner.module) >= Len(cin.def.module)
       /\ SubSeq(cdef.inner.module, 1, Len(cin.def.module)) = cin.def.module
       /\ ValidPositions(cdef.inner, cdef.inner.module)
  /\ cstage = "emitted" => ValidPositions(cdef.inner, ctokens.module)

\* C29's case: parse selected a struct and a block, neither the first item
\* of the module, and from_type added items to the module that to_tokens
\* emitted
C29_Witness ==
  /\ cstage = "emitted"
  /\ cin.def.properties_item_index # None
  /\ cin.def.methods_item_index # None
  /\ cin.def.properties_item_index[1] >= 1
  /\ Len(ctokens.module) > Len(cin.def.module)
  /\ Len(cin.def.signals) > 0

-----------------------------------------------------------------------------
(* Claims about the validation of a class *)

\* the errors of the vector that are about the modifiers abstract and final
ModifierErrors(errors) ==
  {i \in 1..Len(errors) : errors[i] \notin {MissingName, MemberError}}

BothModifiers == cin.attrs.abstract_ /\ cin.attrs.final_

\* C17: validation of a class with both the abstract and the final flag
\* pushes exactly one error about the modifiers, and with at most one of the
\* two flags none; whatever the flags, from_type goes on after validation and
\* returns the class, built with the flags as given.
C17_OneModifierErrorAndClassStillBuilt ==
  /\ cstage = "input" => ENABLED FromType
  /\ cstage # "input" =>
       /\ Cardinality(ModifierErrors(cerrors)) = IF BothModifiers THEN 1 ELSE 0
       /\ cdef.abstract_ = cin.attrs.abstract_
       /\ cdef.final_ = cin.attrs.final_
       /\ cdef.inner = BuildClass(cin.attrs, cin.def).inner

C17_Witness ==
  /\ cstage = "built"
  /\ BothModifiers
  /\ Cardinality(ModifierErrors(cerrors)) = 1
  /\ cdef.abstract_ /\ cdef.final_

\* C18: from_type reports the missing-name error exactly when the type has
\* no resolvable name, that is when no name option is given and the parse
\* inferred none; a class without the option whose name was inferred from its
\* struct gets no such error.
C18_MissingNameErrorIffNoResolvableName ==
  cstage # "input" =>
    ((\E i \in 1..Len(cerrors) : cerrors[i] = MissingName)
       <=> (cin.attrs.name = None /\ cin.def.name = None))

-----------------------------------------------------------------------------
(* Claims about what is emitted for a class *)

\* the name of the type after resolution: the name option, else the name
\* that the parse inferred
ResolvedName == IF cin.attrs.name # None THEN cin.attrs.name ELSE cin.def.name

\* the number of methods the type has to emit
MethodCount == cin.def.public_methods + cin.def.virtual_methods

\* C19: for a final class no trait is emitted under any name, also when the
\* option names one, and its public methods are emitted as inherent methods
\* of the wrapper type; for a class that is not final and has a name the
\* methods are emitted in a trait, named by the option if given and else
\* by the name of the type followed by Ext.
C19_FinalInherentElseTraitUnderExtName ==
  cstage = "emitted" =>
    LET pm == ctokens.public_methods
    IN  /\ cin.attrs.final_ =>
             /\ pm # None => /\ pm[1].form = "inherent"
                              /\ pm[1].name = ResolvedName[1]
             /\ (ResolvedName # None /\ MethodCount > 0) => pm # None
        /\ (~cin.attrs.final_ /\ ResolvedName # None /\ MethodCount > 0) =>
             /\ pm # None
             /\ pm[1].form = "trait"
             /\ pm[1].name = IF cin.attrs.ext_trait # None
                              THEN cin.attrs.ext_trait[1]
                              ELSE ResolvedName[1] \o "Ext"
             /\ pm[1].items = MethodCount

C19_Witness ==
  /\ cstage = "emitted"
  /\ cin.attrs.final_
  /\ cin.attrs.ext_trait # None
  /\ ctokens.public_methods # None
  /\ ctokens.public_methods[1].form = "inherent"

\* C20: the implementation of IsSubclassable, whose class_init installs the
\* trampolines in the class struct of a descendant, is emitted exactly when
\* the type has at least one virtual method and a resolved name.
C20_SubclassableIffVirtualMethodAndName ==
  cstage = "emitted" =>
    /\ ctokens.is_subclassable # None
          <=> (cin.def.virtual_methods >= 1 /\ ResolvedName # None)
    /\ ctokens.is_subclassable # None =>
          /\ ctokens.is_subclassable[1].for = ResolvedName[1]
          /\ Len(ctokens.is_subclassable[1].assignments)
                = cin.def.virtual_methods

C20_Witness ==
  /\ cstage = "emitted"
  /\ cin.def.virtual_methods >= 1
  /\ cin.attrs.name = None
  /\ ctokens.is_subclassable # None

-----------------------------------------------------------------------------
(* Claims about the collector of the diagnostics *)

\* C21: the collector is append-only. Every push, push_spanned, push_syn and
\* push_darling adds exactly the error it is called with at the end of the
\* vector and leaves the earlier errors in place and in order;
\* into_compile_errors returns a result exactly when at least one error was
\* pushed, and the result carries every pushed error, in order.
C21_CollectorAppendOnlyAndAllErrorsReturned ==
  [][/\ (estage = "open" /\ estage' = "open") =>
          ecol' = Append(ecol, ecall'.error[1])
     /\ (estage = "open" /\ estage' = "consumed") =>
          /\ eout' # None <=> Len(ecol) > 0
          /\ eout' # None =>
                /\ Len(eout'[1]) = Len(ecol)
                /\ \A i \in 1..Len(ecol) :
                      /\ eout'[1][i].compile_error = ecol[i].message
                      /\ eout'[1][i].span = ecol[i].span]_varsErrors

C21_Witness ==
  /\ estage = "consumed"
  /\ eout # None
  /\ Len(eout[1]) = MaxErrors
  /\ eout[1][1].span # eout[1][2].span

\* the errors that were in the vector before from_type
EarlierErrors == SelectSeq(cerrors, LAMBDA e : e = MemberError)

\* C22: for a type whose name is unresolved every artifact that needs the
\* name is omitted: the wrapper, the trait or block of the public methods,
\* the fields of the class struct and the class struct, the body of the class
\* initialisation, the subclassability implementation, the ObjectSubclass and
\* ObjectImpl implementations (which hold the table functions) and the extra
\* private items, so the module is emitted as it was. The errors pushed
\* before stay in the vector, in front, and the members of the type are
\* still those that were extracted.
C22_UnresolvedNameOmitsEveryArtifact ==
  (cstage = "emitted" /\ ResolvedName = None) =>
    /\ ctokens.wrapper = None
    /\ ctokens.public_methods = None
    /\ ctokens.is_subclassable = None
    /\ ctokens.module = cin.def.module
    /\ type_struct_fields(cdef.inner) = <<>>
    /\ class_struct_definition(cdef) = None
    /\ type_init_tokens(cdef.inner) = None
    /\ object_impl_impl(cdef) = None
    /\ extra_private_items(cdef) = <<>>
    /\ \A i \in 1..Len(cerrors) : cerrors[i] = MemberError => i = 1
    /\ cdef.inner.public_methods = cin.def.public_methods
    /\ cdef.inner.virtual_methods = cin.def.virtual_methods
    /\ cdef.inner.signals = cin.def.signals

C22_Witness ==
  /\ cstage = "emitted"
  /\ ResolvedName = None
  /\ EarlierErrors # <<>>
  /\ Len(cerrors) > 1
  /\ cin.def.virtual_methods > 0
  /\ cin.def.public_methods > 0
  /\ cin.def.signals # <<>>
  /\ cdef.inner.signals = cin.def.signals

\* the virtual methods of the type, in the order of their declaration
VirtualMethodOrder == [i \in 1..cin.def.virtual_methods |-> i]

-----------------------------------------------------------------------------
(* Claims about the installer of the descendants *)

\* the installer has executed every statement of class_init
InstallerDone == icfg.stmts # <<>> /\ ipc = Len(icfg.stmts)

\* the slots the installer assigns
InstalledSlots == {icfg.virtual_methods[i] : i \in 1..Len(icfg.virtual_methods)}

\* C27: in the installer of a descendant, no slot holds the trampoline of the
\* descendant before parent_class_init has returned; a slot that holds it keeps
\* it; and when the installer has finished, every slot it installs holds the
\* trampoline of the descendant, whatever the class initialisation of the
\* parent wrote to it
C27_ParentInitBeforeSubclassTrampolines ==
  /\ [](/\ (\E m \in VMethods : iclass[m] = SubclassedTrampoline(icfg.t))
            => iparent_done
        /\ InstallerDone
            => \A m \in InstalledSlots : iclass[m] = SubclassedTrampoline(icfg.t))
  /\ [][\A m \in VMethods :
         iclass[m] = SubclassedTrampoline(icfg.t)
           => iclass'[m] = SubclassedTrampoline(icfg.t)]_vars

\* C27's case: the installer of a descendant of a subclass has finished, the
\* class initialisation of the parent wrote the default trampoline to the
\* first of two slots, and that slot holds the trampoline of the descendant
C27_Witness ==
  /\ InstallerDone
  /\ icfg.t = MaxDepth
  /\ Len(icfg.virtual_methods) = 2
  /\ icfg.installs[icfg.virtual_methods[1]] = Some(DefaultTrampoline)
  /\ iparent_done
  /\ iclass[icfg.virtual_methods[1]] = SubclassedTrampoline(icfg.t)

-----------------------------------------------------------------------------
(* Claims about the generated dispatch functions *)

ModeAllows(fn, mode) ==
  IF fn = "set_property" THEN Writable(mode) ELSE Readable(mode)

-----------------------------------------------------------------------------
(* Claims about the generated registration tables *)

\* the number of entries the user's method and the custom statements add
PrefixLen(cfg, f) ==
  (IF cfg.user[f].has_method THEN cfg.user[f].len ELSE 0)
    + (IF cfg.custom[f] = None THEN 0 ELSE cfg.custom[f][1])

\* C2: with N declared properties and a code-contributed prefix of length K,
\* the properties table has exactly K + N entries and the entry at 0-based
\* position K + i is the i-th declared property, for every i in 0..N-1 (the
\* table of derived_properties has no prefix).
C2_TableIsPrefixThenDeclaredProperties ==
  /\ tables["properties"].built =>
       LET t == tables["properties"].entries
           K == PrefixLen(tcfg, "properties")
           N == Len(tcfg.properties)
       IN  /\ Len(t) = K + N
           /\ \A i \in 0..(N - 1) : t[K + i + 1] = Entry("declared", i)
  /\ tables["derived_properties"].built =>
       LET t == tables["derived_properties"].entries
           N == Len(tcfg.properties)
       IN  /\ Len(t) = N
           /\ \A i \in 0..(N - 1) : t[i + 1] = Entry("declared", i)

\* C2's case: a table with a prefix from the user's method and from a custom
\* statement, followed by two declared properties
C2_Witness ==
  /\ tables["properties"].built
  /\ tcfg.user["properties"].has_method /\ tcfg.user["properties"].len = 1
  /\ tcfg.custom["properties"] = Some(1)
  /\ Len(tcfg.properties) = 2
  /\ Len(tables["properties"].entries) = 4

IsDeclared(e) == e.origin = "declared"

\* C3: in properties() and in signals(), every entry of the user's own method
\* and of the custom statements comes before every declared member, and the
\* declared members follow in declaration order.
C3_CodeEntriesPrecedeDeclaredMembers ==
  \A f \in {"properties", "signals"} :
    tables[f].built =>
      LET t == tables[f].entries
      IN  /\ \A p \in 1..Len(t) : \A q \in 1..Len(t) :
                (IsDeclared(t[p]) /\ ~IsDeclared(t[q])) => q < p
          /\ SelectSeq(t, IsDeclared)
               = [i \in 1..DeclaredCount(tcfg, f) |-> Entry("declared", i - 1)]
          /\ Len(SelectSeq(t, LAMBDA e : ~IsDeclared(e))) = PrefixLen(tcfg, f)

\* C3's case: both tables hold entries of the user's method, of a custom
\* statement and two declared members
C3_Witness ==
  \A f \in {"properties", "signals"} :
    /\ tables[f].built
    /\ tcfg.user[f].has_method /\ tcfg.user[f].len = 1
    /\ tcfg.custom[f] = Some(1)
    /\ DeclaredCount(tcfg, f) = 2
    /\ tables[f].entries[1].origin = "method"
    /\ tables[f].entries[2].origin = "custom"

\* C24: whenever the properties table of a class holds both entries
\* contributed by code (by the user's properties method or by spliced custom
\* statements) and declared properties, the base index is set, to the number
\* of entries that precede the first declared property.
C24_BaseIndexSetWhenCodeAndDeclaredEntries ==
  LET t == tables["properties"].entries
  IN  (/\ tcfg.base = "Class"
       /\ tables["properties"].built
       /\ \E p \in 1..Len(t) : ~IsDeclared(t[p])
       /\ \E p \in 1..Len(t) : IsDeclared(t[p]))
        => /\ base_index # None
           /\ t[base_index[1] + 1] = Entry("declared", 0)
           /\ base_index[1] = PrefixLen(tcfg, "properties")

\* C4: however the threads that call properties(), signals() or
\* derived_properties() interleave, the initializer of each table is started
\* at most once and exactly once for a filled table, no initializer panics,
\* and the filled table and the slice every caller gets are the one table
\* the initializer builds.
C4_InitializerRunsOnceAndAllSeeSameTable ==
  /\ \A f \in TableNames :
       /\ init_runs[f] <= 1
       /\ tables[f].built =>
            (init_runs[f] = 1 /\ tables[f].entries = TableBody(tcfg, f))
  /\ \A t \in Threads :
       /\ thr[t].pc # "panicked"
       /\ thr[t].pc = "done" => thr[t].seen = TableBody(tcfg, thr[t].f)

\* C4's case: two threads have both called properties(), whose initializer
\* has four statements, and both hold the table of all its entries
C4_Witness ==
  /\ \A t \in {1, 2} :
       /\ thr[t].pc = "done"
       /\ thr[t].f = "properties"
       /\ Len(thr[t].seen) = MaxExtra + MaxExtra + MaxProps
  /\ Len(InitStmts(tcfg, "properties")) = 4
  /\ init_runs["properties"] = 1

\* the subclasses up to t that define m
Overriders(t, m) == {u \in 1..t : vcfg.defines[u][m]}

\* C5: for a virtual method with a default body, a call on an instance of a
\* type with no overriding subclass up to it ends in the default body of the
\* declaring type; a call on an instance of a subclass that defines the method
\* ends in that subclass's method; and with exactly one overriding subclass, a
\* parent call made from its method ends in the default body.
C5_DefaultOverrideAndChainUpResolution ==
  (vcall.active /\ vcfg.has_default[vcall.m]) =>
    /\ (vcall.parent_calls = 0 /\ Overriders(vcall.t, vcall.m) = {})
         => vcall.at = DefaultBody
    /\ (vcall.parent_calls = 0 /\ vcall.t # 0 /\ vcfg.defines[vcall.t][vcall.m])
         => vcall.at = SubclassImpl(vcall.t)
    /\ (vcall.parent_calls = 1 /\ Cardinality(Overriders(vcall.t, vcall.m)) = 1)
         => vcall.at = DefaultBody

\* C5's case: the only overriding subclass was called and its method made a
\* parent call, which ended in the default body
C5_Witness ==
  /\ vcall.active
  /\ vcfg.has_default[vcall.m]
  /\ vcall.t = 1
  /\ vcfg.defines[1][vcall.m]
  /\ vcall.parent_calls = 1
  /\ vcall.at = DefaultBody

\* C6 as stated: the slot of an initialised declaring type holds the default
\* trampoline, and subclass initialisation changes the slot it inherits only
\* for a virtual method the subclass defines.
C6_SlotOverriddenOnlyWhenDefined ==
  \A t \in class_inited : \A m \in VMethods :
    /\ t = 0 => slots[t][m] = DefaultTrampoline
    /\ (t # 0 /\ ~vcfg.defines[t][m])
         => slots[t][m] = slots[parent_class(t)][m]

\* C6: the slot of an initialised declaring type holds the default trampoline;
\* the slot of an initialised subclass holds the subclass's own trampoline for
\* every virtual method, defined by the subclass or not; a call through the
\* slot of a method the subclass does not define ends where a call through
\* the parent's slot ends, and a call through the slot of a method it defines
\* ends in the subclass's method.
C6_SubclassInitRewritesEverySlot ==
  \A t \in class_inited : \A m \in VMethods :
    /\ t = 0 => slots[t][m] = DefaultTrampoline
    /\ t # 0 =>
         /\ slots[t][m] = SubclassedTrampoline(t)
         /\ CallSlot(t, slots[t][m], m, slots, vcfg, StackDepth).at
              = IF vcfg.defines[t][m]
                THEN SubclassImpl(t)
                ELSE CallSlot(parent_class(t), slots[parent_class(t)][m],
                              m, slots, vcfg, StackDepth).at

\* C6's case: a subclass that defines one virtual method and not the other
\* is initialised
C6_Witness ==
  /\ 1 \in class_inited
  /\ vcfg.defines[1]["vfunc_a"]
  /\ ~vcfg.defines[1]["vfunc_b"]
  /\ slots[1]["vfunc_b"].kind = "subclassed"

\* C7: the class structs a call goes through are the type of the instance and
\* then its ancestors, each the immediate ancestor of the one before and none
\* twice; the call is in the method of the type it went through last; it
\* never faults on a slot or on the stack; and after as many parent calls made
\* from methods of subclasses as there are overriding subclasses it is in the
\* default of the declaring type.
C7_ParentCallsWalkUpToDeclaringDefault ==
  vcall.active =>
    /\ \A i \in 1..Len(vcall.visited) : vcall.visited[i] = vcall.t - (i - 1)
    /\ vcall.at.owner = vcall.visited[Len(vcall.visited)]
    /\ vcall.at.kind \in {"subclass", "default_body", "not_implemented"}
    /\ vcall.at.kind = "subclass" => vcfg.defines[vcall.at.owner][vcall.m]
    /\ vcall.parent_calls = Cardinality(Overriders(vcall.t, vcall.m))
         => /\ vcall.at.kind \in {"default_body", "not_implemented"}
            /\ Len(vcall.visited) = vcall.t + 1

\* C7's case: in the deepest hierarchy, where every subclass defines the
\* method, each method made a parent call and the call is in the default body
C7_Witness ==
  /\ vcall.active
  /\ vcall.t = MaxDepth
  /\ \A u \in Subclasses : vcfg.defines[u][vcall.m]
  /\ vcall.parent_calls = MaxDepth
  /\ vcall.at = DefaultBody

\* C8: a step changes the slots of a class struct only if it is the class
\* initialisation of that type, which is not initialised before the step and
\* is after it; so no step changes a slot of an initialised type.
C8_SlotsWrittenOnlyByClassInit ==
  [][\A t \in Types :
       slots'[t] # slots[t] => (t \notin class_inited /\ t \in class_inited')]_vars

\* C8's case: every type is initialised and has an instance, and a call that
\* made a parent call has run, with the slots as class initialisation left
\* them
C8_Witness ==
  /\ class_inited = Types
  /\ instances = Types
  /\ vcall.active
  /\ vcall.parent_calls >= 1
  /\ slots[0]["vfunc_a"] = DefaultTrampoline
  /\ slots[MaxDepth]["vfunc_a"] = SubclassedTrampoline(MaxDepth)

====
